---- MODULE Spec2Model ----
(***************************************************************************)
(* Model of linear-agent's ticket pipeline:                                *)
(*   - LinearClient::enrich_ticket   (src/src/linear.rs), the fan-out of   *)
(*     sub-lookups that fills the relational fields of a Ticket;           *)
(*   - the ticket document encoder   (src/src/main.rs), format! of         *)
(*     ticket_file_content;                                                *)
(*   - Ticket::from_markdown         (src/src/models.rs), the line-by-line *)
(*     decoder of that document.                                           *)
(* Text is modelled as TLA+ strings, character by character: the string    *)
(* functions of the Rust standard library the code calls are operators     *)
(* below, and documents are single strings holding "\n".                   *)
(***************************************************************************)
EXTENDS Integers, Sequences, FiniteSets, TLC

VARIABLES pc, origin, ticket, doc, rest, dec, result, doc2,
          skip_labels, remote, enriched, calls,
          args, phase, tickets, selected, enriched_tickets, written, log,
          save_i

vars == <<pc, origin, ticket, doc, rest, dec, result, doc2,
          skip_labels, remote, enriched, calls,
          args, phase, tickets, selected, enriched_tickets, written, log,
          save_i>>

(* the state of main: the arguments, its position, its locals, the files    *)
(* it wrote and the requests it issued itself                               *)
RunVars ==
  <<args, phase, tickets, selected, enriched_tickets, written, log, save_i>>

-----------------------------------------------------------------------------
(* Option<T>: None is the empty sequence, Some(x) the one-element sequence. *)
None == <<>>
Some(x) == <<x>>
is_some(o) == o # <<>>
unwrap(o) == o[1]

(* Result<T, E> *)
Ok(v) == [ok |-> TRUE, val |-> v]
Err(e) == [ok |-> FALSE, err |-> e]

-----------------------------------------------------------------------------
(* str functions of the Rust standard library, as the code uses them.      *)

SetMin(S) == CHOOSE x \in S : \A y \in S : x <= y
SetMax(S) == CHOOSE x \in S : \A y \in S : x >= y

(* str::starts_with *)
starts_with(s, p) == Len(s) >= Len(p) /\ SubSeq(s, 1, Len(p)) = p

(* str::ends_with *)
ends_with(s, p) == Len(s) >= Len(p) /\ SubSeq(s, Len(s) - Len(p) + 1, Len(s)) = p

(* str::find: index of the first occurrence of p in s, 0 when there is none *)
find(s, p) ==
  LET hits == {i \in 1..(Len(s) - Len(p) + 1) : SubSeq(s, i, i + Len(p) - 1) = p}
  IN  IF hits = {} THEN 0 ELSE SetMin(hits)

(* str::contains *)
contains(s, p) == find(s, p) # 0

(* str::trim_start_matches: strips every leading repetition of p *)
RECURSIVE trim_start_matches(_, _)
trim_start_matches(s, p) ==
  IF Len(p) > 0 /\ starts_with(s, p)
  THEN trim_start_matches(SubSeq(s, Len(p) + 1, Len(s)), p)
  ELSE s

(* str::trim_end_matches: strips every trailing repetition of p *)
RECURSIVE trim_end_matches(_, _)
trim_end_matches(s, p) ==
  IF Len(p) > 0 /\ ends_with(s, p)
  THEN trim_end_matches(SubSeq(s, 1, Len(s) - Len(p)), p)
  ELSE s

(* char::is_whitespace, over the characters the model's texts hold *)
is_whitespace(c) == c \in {" ", "\n", "\t", "\r"}

(* str::trim: strips leading and trailing whitespace *)
trim(s) ==
  LET keep == {i \in 1..Len(s) : ~is_whitespace(SubSeq(s, i, i))}
  IN  IF keep = {} THEN "" ELSE SubSeq(s, SetMin(keep), SetMax(keep))

(* str::split(p).collect::<Vec<&str>>() *)
RECURSIVE split(_, _)
split(s, p) ==
  LET i == find(s, p)
  IN  IF i = 0 THEN <<s>>
      ELSE <<SubSeq(s, 1, i - 1)>> \o split(SubSeq(s, i + Len(p), Len(s)), p)

(* str::splitn(2, p).collect::<Vec<&str>>() *)
splitn2(s, p) ==
  LET i == find(s, p)
  IN  IF i = 0 THEN <<s>>
      ELSE <<SubSeq(s, 1, i - 1), SubSeq(s, i + Len(p), Len(s))>>

(* [String]::join(sep) *)
RECURSIVE join(_, _)
join(v, sep) ==
  IF v = <<>> THEN ""
  ELSE IF Len(v) = 1 THEN v[1]
  ELSE v[1] \o sep \o join(Tail(v), sep)

(* mutant of str_lines: blank lines are no lines *)
str_lines_skip_blank(s) ==
  LET pieces == split(s, "\n")
      keep   == {i \in 1..Len(pieces) : pieces[i] # ""}
      RECURSIVE pick(_)
      pick(i) == IF i > Len(pieces) THEN <<>>
                 ELSE (IF i \in keep THEN <<pieces[i]>> ELSE <<>>) \o pick(i + 1)
  IN  pick(1)

(* str::lines: split at "\n"; a "\r" right before the "\n" is dropped with  *)
(* it, and the empty piece after a final "\n" is no line ("" has no line).   *)
str_lines(s) ==
  LET pieces  == split(s, "\n")
      n       == Len(pieces)
      kept    == IF pieces[n] = "" THEN SubSeq(pieces, 1, n - 1) ELSE pieces
      strip(i) == IF i < n /\ ends_with(pieces[i], "\r")
                  THEN SubSeq(pieces[i], 1, Len(pieces[i]) - 1)
                  ELSE pieces[i]
  IN  [i \in 1..Len(kept) |-> strip(i)]

-----------------------------------------------------------------------------
(* Numbers and dates as text.                                               *)

Digit(d) == SubSeq("0123456789", d + 1, d + 1)

DigitVal(c) == find("0123456789", c) - 1

is_digits(s) ==
  Len(s) > 0 /\ \A i \in 1..Len(s) : contains("0123456789", SubSeq(s, i, i))

(* Display of a natural number *)
RECURSIVE nat_to_string(_)
nat_to_string(n) ==
  IF n < 10 THEN Digit(n) ELSE nat_to_string(n \div 10) \o Digit(n % 10)

RECURSIVE digits_value(_)
digits_value(s) ==
  IF s = "" THEN 0
  ELSE 10 * digits_value(SubSeq(s, 1, Len(s) - 1)) + DigitVal(SubSeq(s, Len(s), Len(s)))

(* <i32 as Display>::to_string *)
i32_to_string(n) == IF n < 0 THEN "-" \o nat_to_string(-n) ELSE nat_to_string(n)

(* whether the digit string body (no leading zero) exceeds i32::MAX *)
i32_overflows(body) ==
  \/ Len(body) > 10
  \/ /\ Len(body) = 10
     /\ LET hi == digits_value(SubSeq(body, 1, 9))
            lo == DigitVal(SubSeq(body, 10, 10))
        IN  hi > 214748364 \/ (hi = 214748364 /\ lo > 7)

(* str::parse::<i32>().ok(): an optional sign, then digits only, in range  *)
(* (i32::MIN itself, which the model's integers cannot hold, is left out)   *)
parse_i32(s) ==
  LET neg  == starts_with(s, "-")
      body == IF neg \/ starts_with(s, "+") THEN SubSeq(s, 2, Len(s)) ELSE s
      sig  == LET t == trim_start_matches(body, "0") IN IF t = "" THEN "0" ELSE t
  IN  IF ~is_digits(body) \/ i32_overflows(sig) THEN None
      ELSE IF neg THEN Some(-digits_value(sig)) ELSE Some(digits_value(sig))

(* f64 values are held as finite decimals [int, frac]: frac is the digit    *)
(* string after the point with no trailing zero ("" for a whole number).    *)
F64(i, f) == [int |-> i, frac |-> f]

(* <f64 as Display>::to_string: 3.0 is written 3, 2.5 is written 2.5 *)
f64_to_string(e) ==
  IF e.frac = "" THEN nat_to_string(e.int)
  ELSE nat_to_string(e.int) \o "." \o e.frac

(* str::parse::<f64>().ok(), over unsigned decimal texts: digits, and an   *)
(* optional point followed by digits; anything else is no number.          *)
parse_f64(s) ==
  LET parts == splitn2(s, ".")
      ip    == parts[1]
      fp    == IF Len(parts) = 2 THEN trim_end_matches(parts[2], "0") ELSE ""
  IN  IF ~is_digits(ip) THEN None
      ELSE IF Len(parts) = 2 /\ parts[2] # "" /\ ~is_digits(parts[2]) THEN None
      ELSE Some(F64(digits_value(ip), fp))

(* DateTime<Utc>: a calendar date and the seconds elapsed in that day *)
DateTime(y, m, d, s) == [y |-> y, m |-> m, d |-> d, secs |-> s]

Pad(n, w) ==
  LET t == nat_to_string(n)
  IN  IF Len(t) >= w THEN t ELSE SubSeq("0000", 1, w - Len(t)) \o t

(* DateTime::format("%Y-%m-%d") *)
format_ymd(dt) == Pad(dt.y, 4) \o "-" \o Pad(dt.m, 2) \o "-" \o Pad(dt.d, 2)

(* chrono's Parsed after parsing s with "%Y-%m-%d": the format carries no    *)
(* %z, so no offset (and no time of day) is ever set.                        *)
parse_ymd(s) ==
  LET p == split(s, "-")
  IN  IF Len(p) = 3 /\ Len(p[1]) = 4 /\ Len(p[2]) = 2 /\ Len(p[3]) = 2
         /\ is_digits(p[1]) /\ is_digits(p[2]) /\ is_digits(p[3])
         /\ digits_value(p[2]) \in 1..12 /\ digits_value(p[3]) \in 1..31
      THEN Ok([year |-> digits_value(p[1]), month |-> digits_value(p[2]),
               day |-> digits_value(p[3]), offset |-> None])
      ELSE Err("Invalid")

(* Parsed::to_datetime: a DateTime<FixedOffset> needs an offset *)
to_datetime(parsed) ==
  IF parsed.offset = None THEN Err("NotEnough")
  ELSE Ok(DateTime(parsed.year, parsed.month, parsed.day, 0))

(* DateTime::<FixedOffset>::parse_from_str(s, "%Y-%m-%d") *)
parse_from_str(s) ==
  LET p == parse_ymd(s) IN IF p.ok THEN to_datetime(p.val) ELSE p

(* DateTime::parse_from_rfc3339("2021-01-01T00:00:00Z").unwrap() *)
SentinelDate == DateTime(2021, 1, 1, 0)

(* parse_from_str(..).unwrap_or_else(|_| sentinel).with_timezone(&Utc) *)
comment_created_at(date_str) ==
  LET r == parse_from_str(date_str) IN IF r.ok THEN r.val ELSE SentinelDate

-----------------------------------------------------------------------------
(* The records of models.rs.                                                *)

Comment(id, body, created_at, user) ==
  [id |-> id, body |-> body, created_at |-> created_at, user |-> user]

RelatedTicket(id, title, state, assignee) ==
  [id |-> id, title |-> title, state |-> state, assignee |-> assignee]

(* Ticket::new: the relational fields start empty *)
NewTicket(id, title, description, priority, estimate, labels, url, state, created_at, updated_at, assignee) ==
  [id |-> id, title |-> title, description |-> description,
   priority |-> priority, estimate |-> estimate, labels |-> labels,
   url |-> url, state |-> state, created_at |-> created_at,
   updated_at |-> updated_at, assignee |-> assignee,
   comments |-> <<>>, parent |-> None, children |-> <<>>,
   related_tickets |-> <<>>]

-----------------------------------------------------------------------------
(* The ticket document encoder of main (--ticket-id mode).                  *)

labels_str(t) ==
  IF t.labels = <<>> THEN "None" ELSE join(t.labels, ", ")

(* mutant of entry_line: the id of the ticket is written too *)
entry_line_with_id(rt) ==
  "- " \o rt.id \o " " \o rt.title \o " (State: " \o rt.state \o ")"

entry_line(rt) == "- " \o rt.title \o " (State: " \o rt.state \o ")"

entry_lines(v) == [i \in 1..Len(v) |-> entry_line(v[i])]

related_tickets_str(t) ==
  IF t.related_tickets = <<>> THEN "None"
  ELSE join(entry_lines(t.related_tickets), "\n")

children_str(t) ==
  IF t.children = <<>> THEN "None"
  ELSE join(entry_lines(t.children), "\n")

(* mutant of comment_line: an absent user is written as the empty name *)
comment_line_anonymous(c) ==
  LET user == IF is_some(c.user) THEN unwrap(c.user) ELSE ""
  IN  "- " \o user \o " (" \o format_ymd(c.created_at) \o "): " \o c.body

comment_line(c) ==
  LET user == IF is_some(c.user) THEN unwrap(c.user) ELSE "Unknown"
  IN  "- " \o user \o " (" \o format_ymd(c.created_at) \o "): " \o c.body

comment_lines(v) == [i \in 1..Len(v) |-> comment_line(v[i])]

comments_str(t) ==
  IF t.comments = <<>> THEN "None"
  ELSE join(comment_lines(t.comments), "\n")

(* mutant of estimate_str: an absent estimate is written as 0 *)
estimate_str_zero(t) ==
  IF is_some(t.estimate) THEN f64_to_string(unwrap(t.estimate))
  ELSE "0"

estimate_str(t) ==
  IF is_some(t.estimate) THEN f64_to_string(unwrap(t.estimate))
  ELSE "Not estimated"

(* mutant of ticket_file_content: the Child Tickets section is written     *)
(* before the Related Tickets section                                       *)
ticket_file_content_swapped(t) ==
  "# Ticket: " \o t.title \o "\n\n"
  \o "**Ticket ID:** " \o t.id \o "\n"
  \o "**State:** " \o t.state \o "\n"
  \o "**Priority:** " \o i32_to_string(t.priority) \o "\n"
  \o "**Estimate:** " \o estimate_str(t) \o "\n"
  \o "**URL:** " \o t.url \o "\n"
  \o "**Labels:** " \o labels_str(t) \o "\n\n"
  \o "## Description\n\n" \o t.description \o "\n\n"
  \o "## Comments\n\n" \o comments_str(t) \o "\n\n"
  \o "## Child Tickets\n\n" \o children_str(t) \o "\n\n"
  \o "## Related Tickets\n\n" \o related_tickets_str(t) \o "\n\n"

ticket_file_content(t) ==
  "# Ticket: " \o t.title \o "\n\n"
  \o "**Ticket ID:** " \o t.id \o "\n"
  \o "**State:** " \o t.state \o "\n"
  \o "**Priority:** " \o i32_to_string(t.priority) \o "\n"
  \o "**Estimate:** " \o estimate_str(t) \o "\n"
  \o "**URL:** " \o t.url \o "\n"
  \o "**Labels:** " \o labels_str(t) \o "\n\n"
  \o "## Description\n\n" \o t.description \o "\n\n"
  \o "## Comments\n\n" \o comments_str(t) \o "\n\n"
  \o "## Related Tickets\n\n" \o related_tickets_str(t) \o "\n\n"
  \o "## Child Tickets\n\n" \o children_str(t) \o "\n\n"

-----------------------------------------------------------------------------
(* The ticket document encoder of main (assignee mode), written a second    *)
(* time in the loop that saves the selected tickets.                        *)

(* mutant of string_continue: the text after the break is kept as written *)
string_continue_kept(s) == s

(* a string literal continued with `\` at the end of a line: the line      *)
(* break and the whitespace that follows it are not part of the string; s   *)
(* is the text of the literal after the backslash                           *)
string_continue(s) ==
  LET content == {i \in 1..Len(s) : ~is_whitespace(SubSeq(s, i, i))}
  IN  IF content = {} THEN "" ELSE SubSeq(s, SetMin(content), Len(s))

labels_str_assignee(t) ==
  IF t.labels = <<>> THEN "None" ELSE join(t.labels, ", ")

related_tickets_str_assignee(t) ==
  IF t.related_tickets = <<>> THEN "None"
  ELSE join(entry_lines(t.related_tickets), "\n")

children_str_assignee(t) ==
  IF t.children = <<>> THEN "None"
  ELSE join(entry_lines(t.children), "\n")

comments_str_assignee(t) ==
  IF t.comments = <<>> THEN "None"
  ELSE join(comment_lines(t.comments), "\n")

ticket_file_content_assignee(t) ==
  "# Ticket: " \o t.title \o "\n\n"
  \o "**Ticket ID:** " \o t.id \o "\n"
  \o "**State:** " \o t.state \o "\n"
  \o "**Priority:** " \o i32_to_string(t.priority) \o "\n"
  \o "**Estimate:** " \o estimate_str(t) \o "\n"
  \o "**URL:** " \o t.url \o "\n"
  \o "**Labels:** " \o labels_str_assignee(t) \o "\n\n"
  \o "## Description\n\n" \o t.description \o "\n\n"
  \o "## Comments\n\n" \o comments_str_assignee(t) \o "\n\n"
  \o "## Related Tickets\n\n" \o related_tickets_str_assignee(t) \o "\n\n"
  \o "## Child Tickets\n\n" \o children_str_assignee(t) \o "\n\n"
  \o string_continue("\n             ")

-----------------------------------------------------------------------------
(* Ticket::from_markdown: the locals of the function and its loop body.     *)

(* the locals after the title line was taken (models.rs 79-96) *)
DecoderInit(title_line) ==
  [title |-> trim_start_matches(title_line, "# Ticket: "),
   id |-> "", description |-> "", priority |-> 0, estimate |-> None,
   labels |-> <<>>, url |-> "", state |-> "",
   in_description_section |-> FALSE, comment_section_start |-> FALSE,
   comments |-> <<>>, current_comment |-> "",
   comment_user |-> None, comment_date |-> None,
   related_tickets |-> <<>>, children |-> <<>>]

(* the guard of both places that save the comment being built *)
comment_pending(d) ==
  d.current_comment # "" /\ is_some(d.comment_user) /\ is_some(d.comment_date)

(* mutant of push_comment: the id counts the comment being pushed *)
push_comment_one_based(d) ==
  [d EXCEPT !.comments =
     Append(@, Comment("from_file_" \o nat_to_string(Len(d.comments) + 1),
                       trim(d.current_comment),
                       comment_created_at(unwrap(d.comment_date)),
                       d.comment_user))]

(* comments.push(Comment { .. }) *)
push_comment(d) ==
  [d EXCEPT !.comments =
     Append(@, Comment("from_file_" \o nat_to_string(Len(d.comments)),
                       trim(d.current_comment),
                       comment_created_at(unwrap(d.comment_date)),
                       d.comment_user))]

(* the comment branch of the loop *)
comment_branch(d, line) ==
  LET d1 == IF comment_pending(d)
            THEN [push_comment(d) EXCEPT !.current_comment = ""]
            ELSE d
      parts == splitn2(line, ": ")
  IN  IF Len(parts) # 2 THEN d1
      ELSE LET header_parts == split(trim_start_matches(parts[1], "- "), " (")
           IN  IF Len(header_parts) # 2 THEN d1
               ELSE [d1 EXCEPT
                       !.comment_user = Some(header_parts[1]),
                       !.comment_date = Some(trim_end_matches(header_parts[2], ")")),
                       !.current_comment = parts[2]]

(* the related/children branch of the loop *)
related_branch(d, line) ==
  LET parts == split(trim_start_matches(line, "- "), " (State: ")
  IN  IF Len(parts) # 2 THEN d
      ELSE LET ticket_title == parts[1]
               ticket_state == trim_end_matches(parts[2], ")")
           IN  IF contains(line, "## Related Tickets")
               THEN [d EXCEPT !.related_tickets =
                       Append(@, RelatedTicket(
                         "placeholder_" \o nat_to_string(Len(d.related_tickets)),
                         ticket_title, ticket_state, None))]
               ELSE [d EXCEPT !.children =
                       Append(@, RelatedTicket(
                         "placeholder_" \o nat_to_string(Len(d.children)),
                         ticket_title, ticket_state, None))]

(* the description branch of the loop *)
description_branch(d, line) ==
  [d EXCEPT !.description =
     (IF @ # "" THEN @ \o "\n" ELSE @) \o line]

(* mutant of parse_labels: the text None is split like any other *)
parse_labels_no_none(d, labels_str_) ==
  [d EXCEPT !.labels = split(labels_str_, ", ")]

(* the Labels line: if labels_str != "None" { labels = split(", ") } *)
parse_labels(d, labels_str_) ==
  IF labels_str_ # "None"
  THEN [d EXCEPT !.labels = split(labels_str_, ", ")]
  ELSE d

(* the metadata value after its prefix: trim_start_matches(prefix).trim() *)
meta_value(line, prefix) == trim(trim_start_matches(line, prefix))

(* one iteration of `for line in lines` *)
ParseLine(d, line) ==
  IF starts_with(line, "**Ticket ID:**")
  THEN [d EXCEPT !.id = meta_value(line, "**Ticket ID:**")]
  ELSE IF starts_with(line, "**State:**")
  THEN [d EXCEPT !.state = meta_value(line, "**State:**")]
  ELSE IF starts_with(line, "**Priority:**")
  THEN LET p == parse_i32(meta_value(line, "**Priority:**"))
       IN  [d EXCEPT !.priority = IF is_some(p) THEN unwrap(p) ELSE 0]
  ELSE IF starts_with(line, "**Estimate:**")
  THEN LET estimate_str_ == meta_value(line, "**Estimate:**")
       IN  IF ~contains(estimate_str_, "Not estimated")
           THEN [d EXCEPT !.estimate = parse_f64(estimate_str_)]
           ELSE d
  ELSE IF starts_with(line, "**URL:**")
  THEN [d EXCEPT !.url = meta_value(line, "**URL:**")]
  ELSE IF starts_with(line, "**Labels:**")
  THEN parse_labels(d, meta_value(line, "**Labels:**"))
  ELSE IF contains(line, "## Description")
  THEN [d EXCEPT !.in_description_section = TRUE]
  ELSE IF contains(line, "## Comments")
  THEN [d EXCEPT !.in_description_section = FALSE,
                 !.comment_section_start = TRUE]
  ELSE IF contains(line, "## Related Tickets")
  THEN [d EXCEPT !.comment_section_start = FALSE]
  ELSE IF contains(line, "## Child Tickets")
  THEN d
  ELSE IF d.in_description_section
  THEN description_branch(d, line)
  ELSE IF d.comment_section_start /\ starts_with(line, "- ")
          /\ contains(line, "(") /\ contains(line, "): ")
  THEN comment_branch(d, line)
  ELSE IF starts_with(line, "- ") /\ contains(line, "(State: ")
  THEN related_branch(d, line)
  ELSE d

(* after the loop: the last comment, then the Ticket (models.rs 210-242) *)
FinishTicket(d, now1, now2) ==
  LET comments == IF comment_pending(d) THEN push_comment(d).comments
                  ELSE d.comments
  IN  [id |-> d.id, title |-> d.title, description |-> d.description,
       priority |-> d.priority, estimate |-> d.estimate, labels |-> d.labels,
       url |-> d.url, state |-> d.state, created_at |-> now1,
       updated_at |-> now2, assignee |-> None, comments |-> comments,
       parent |-> None, children |-> d.children,
       related_tickets |-> d.related_tickets]

-----------------------------------------------------------------------------
(* Bounds and the inputs drawn within them.                                 *)

MaxLabels == 2
MaxComments == 2
MaxEntries == 1
MaxRawLines == 3

(* the sublists of v, order kept *)
RECURSIVE SubLists(_)
SubLists(v) ==
  IF v = <<>> THEN {<<>>}
  ELSE LET r == SubLists(Tail(v))
       IN  r \cup {<<Head(v)>> \o x : x \in r}

Prefixes(v, n) == {SubSeq(v, 1, k) : k \in 0..(IF n < Len(v) THEN n ELSE Len(v))}

LabelPool == <<"bug", "ui", "api">>

CommentPool ==
  << Comment("c-1", "Looks good", DateTime(2024, 1, 5, 3600), Some("Ann")),
     Comment("c-2", "First line\nsecond", DateTime(2023, 12, 31, 0), None),
     Comment("c-3", "Done", DateTime(2021, 1, 1, 0), Some("Bob")) >>

ChildPool ==
  << RelatedTicket("ENG-7", "Sub task", "Todo", Some("Ann")),
     RelatedTicket("ENG-8", "Docs", "Done", None) >>

RelatedPool ==
  << RelatedTicket("ENG-3", "Login", "Open", None),
     RelatedTicket("ENG-4", "Crash", "Todo", Some("Bob")) >>

Descriptions == {"", "Save fails", "Steps\nto see"}

(* the tickets as fetch_ticket_by_id / fetch_user_tickets build them *)
BaseTickets ==
  { NewTicket("ENG-1", "Fix bug", "", 2, None, <<>>, "https://l.app/ENG-1",
              "Open", DateTime(2024, 1, 1, 0), DateTime(2024, 1, 2, 0),
              Some("Ann")),
    NewTicket("ENG-2", "Add export", "", 0, Some(F64(3, "")), <<>>,
              "https://l.app/ENG-2", "In Progress", DateTime(2024, 2, 1, 0),
              DateTime(2024, 2, 1, 0), None),
    NewTicket("ENG-1", "Fix bug", "", 2, None, <<>>, "https://l.app/ENG-1",
              "Open", DateTime(2023, 5, 1, 0), DateTime(2023, 6, 2, 0),
              None) }

Parents == {None, Some(RelatedTicket("ENG-9", "Epic", "Open", None))}

(* the enriched tickets handed to the encoder *)
Tickets ==
  { [b EXCEPT !.description = de, !.labels = la, !.comments = co,
              !.parent = IF b.assignee = None THEN Some(RelatedTicket("ENG-9", "Epic", "Open", None)) ELSE None,
              !.children = ch, !.related_tickets = re] :
      b \in BaseTickets, de \in Descriptions,
      la \in Prefixes(LabelPool, MaxLabels),
      co \in SubLists(SubSeq(CommentPool, 1, MaxComments)),
      ch \in Prefixes(ChildPool, MaxEntries),
      re \in Prefixes(RelatedPool, MaxEntries) }

(* lines of hand-written documents *)
RawLinePool ==
  { "## Description", "## Comments", "## Related Tickets", "## Child Tickets",
    "- Ann (2024-01-05): ok", "and more", "- Sub task (State: Todo)",
    "**State:** Done" }

RECURSIVE RawBodies(_)
RawBodies(n) ==
  IF n = 0 THEN {""}
  ELSE LET r == RawBodies(n - 1)
       IN  r \cup {b \o "\n" \o l : b \in r, l \in RawLinePool}

(* documents read from a file: the empty file, a lone line break, and a    *)
(* title line followed by up to MaxRawLines lines                          *)
RawDocs == {"", "\n"} \cup {"# Ticket: T" \o b : b \in RawBodies(MaxRawLines)}

(* the sequences of up to n lines of pool, each line after a line break *)
RECURSIVE BodiesOver(_, _)
BodiesOver(pool, n) ==
  IF n = 0 THEN {""}
  ELSE LET r == BodiesOver(pool, n - 1)
       IN  r \cup {b \o "\n" \o l : b \in r, l \in pool}

(* metadata lines of a ticket file, well-formed and not *)
FieldLinePool ==
  { "**Priority:** 3", "**Priority:** high", "**Estimate:** 3",
    "**Estimate:** Not estimated", "**Estimate:** soon", "**Labels:** " }

(* ticket files made of a title line and metadata lines *)
FieldDocs == {"# Ticket: T" \o b : b \in BodiesOver(FieldLinePool, MaxRawLines)}

(* lines of a Comments section: with a date, with no date, with no body,    *)
(* with a bracket in the user's name                                        *)
CommentLinePool ==
  { "- Ann (2024-01-05): ok", "- Bob (yesterday): fine",
    "- Cy (2023-12-31): ", "- Dee (QA) (2024-02-01): hm" }

(* ticket files made of a title line and a Comments section *)
CommentDocs ==
  {"# Ticket: T\n## Comments" \o b : b \in BodiesOver(CommentLinePool, MaxRawLines)}

(* the files --ticket can be given *)
FileDocs == RawDocs \cup FieldDocs \cup CommentDocs

(* the values Utc::now() returns while decoding *)
Nows == {DateTime(2026, 3, 1, 10), DateTime(2026, 3, 1, 11)}

EmptyTicket ==
  NewTicket("", "", "", 0, None, <<>>, "", "", SentinelDate, SentinelDate, None)

NoValue == <<>>

-----------------------------------------------------------------------------
(* Encode, then Ticket::from_markdown line by line, then encode again.      *)

Init ==
  /\ origin \in {"encoder", "file"}
  /\ ticket \in (IF origin = "encoder" THEN Tickets ELSE {EmptyTicket})
  /\ doc \in (IF origin = "encoder" THEN {""} ELSE FileDocs)
  /\ pc = (IF origin = "encoder" THEN "encode" ELSE "saved")
  /\ rest = <<>>
  /\ dec = NoValue
  /\ result = NoValue
  /\ doc2 = ""
  /\ skip_labels = FALSE
  /\ remote = NoValue
  /\ enriched = NoValue
  /\ calls = <<>>
  /\ args = NoValue
  /\ phase = "none"
  /\ tickets = <<>>
  /\ selected = <<>>
  /\ enriched_tickets = <<>>
  /\ written = <<>>
  /\ log = <<>>
  /\ save_i = 0

EnrichVars == <<skip_labels, remote, enriched, calls>>

(* main: format! of ticket_file_content and std::fs::write *)
Encode ==
  /\ pc = "encode"
  /\ doc' = ticket_file_content(ticket)
  /\ pc' = "saved"
  /\ UNCHANGED <<origin, ticket, rest, dec, result, doc2, EnrichVars, RunVars>>

(* from_markdown: content.lines(), the title line or the error *)
FromMarkdownStart ==
  /\ pc = "saved"
  /\ LET lines == str_lines(doc)
     IN  IF lines = <<>>
         THEN /\ result' = Err("Missing title line")
              /\ pc' = "failed"
              /\ UNCHANGED <<rest, dec>>
         ELSE /\ dec' = DecoderInit(Head(lines))
              /\ rest' = Tail(lines)
              /\ pc' = "loop"
              /\ UNCHANGED result
  /\ UNCHANGED <<origin, ticket, doc, doc2, EnrichVars, RunVars>>

(* from_markdown: one line of the loop *)
FromMarkdownLine ==
  /\ pc = "loop"
  /\ rest # <<>>
  /\ dec' = ParseLine(dec, Head(rest))
  /\ rest' = Tail(rest)
  /\ UNCHANGED <<pc, origin, ticket, doc, result, doc2, EnrichVars, RunVars>>

(* from_markdown: the end of the loop, the last comment and Ok(Self {..}) *)
FromMarkdownFinish ==
  /\ pc = "loop"
  /\ rest = <<>>
  /\ \E now1 \in Nows, now2 \in Nows :
       /\ now1.secs <= now2.secs
       /\ result' = Ok(FinishTicket(dec, now1, now2))
  /\ pc' = "decoded"
  /\ UNCHANGED <<origin, ticket, doc, rest, dec, doc2, EnrichVars, RunVars>>

(* the decoded Ticket written again by the encoder *)
ReEncode ==
  /\ pc = "decoded"
  /\ doc2' = ticket_file_content(result.val)
  /\ pc' = "reencoded"
  /\ UNCHANGED <<origin, ticket, doc, rest, dec, result, EnrichVars, RunVars>>

Next ==
  \/ Encode
  \/ FromMarkdownStart
  \/ FromMarkdownLine
  \/ FromMarkdownFinish
  \/ ReEncode

Spec == Init /\ [][Next]_vars

-----------------------------------------------------------------------------
(* LinearClient::enrich_ticket: the sub-lookups against the remote tracker. *)

LookupKinds == <<"labels", "comments", "parent", "children", "related">>

(* the errors execute_query returns *)
LookupErrors ==
  {"Failed to send request to Linear API", "Linear API returned GraphQL errors"}

OutcomesOf(values) == {Ok(v) : v \in values} \cup {Err(e) : e \in LookupErrors}

(* what the remote tracker answers to each sub-lookup of the ticket *)
Remotes ==
  [labels   : OutcomesOf({<<"bug">>, <<"bug", "ui">>}),
   comments : OutcomesOf({<<>>, SubSeq(CommentPool, 1, 1)}),
   parent   : OutcomesOf(Parents),
   children : OutcomesOf({<<>>, SubSeq(ChildPool, 1, 1)}),
   related  : OutcomesOf({<<>>, SubSeq(RelatedPool, 1, 1)})]

(* the request of one sub-lookup: its query and the $issueId variable *)
Request(kind, t) == [kind |-> kind, id |-> t.id]

(* mutant of Assign: the children result is also written to related_tickets *)
Assign_Overlapping(e, kind, val) ==
  IF kind = "labels" THEN [e EXCEPT !.labels = val]
  ELSE IF kind = "comments" THEN [e EXCEPT !.comments = val]
  ELSE IF kind = "parent" THEN [e EXCEPT !.parent = val]
  ELSE IF kind = "children"
  THEN [e EXCEPT !.children = val, !.related_tickets = val]
  ELSE [e EXCEPT !.related_tickets = val]

(* mutant of Assign: the title is lost with the lookup of the parent *)
Assign_Merging(e, kind, val) ==
  IF kind = "labels" THEN [e EXCEPT !.labels = val]
  ELSE IF kind = "comments" THEN [e EXCEPT !.comments = val]
  ELSE IF kind = "parent" THEN [e EXCEPT !.parent = val, !.title = ""]
  ELSE IF kind = "children" THEN [e EXCEPT !.children = val]
  ELSE [e EXCEPT !.related_tickets = val]

(* enriched.<field> = <lookup result> *)
Assign(e, kind, val) ==
  IF kind = "labels" THEN [e EXCEPT !.labels = val]
  ELSE IF kind = "comments" THEN [e EXCEPT !.comments = val]
  ELSE IF kind = "parent" THEN [e EXCEPT !.parent = val]
  ELSE IF kind = "children" THEN [e EXCEPT !.children = val]
  ELSE [e EXCEPT !.related_tickets = val]

(* mutant of NextPc: the children are looked up before the parent *)
NextPc_ChildrenFirst(kind) ==
  IF kind = "labels" THEN "comments"
  ELSE IF kind = "comments" THEN "children"
  ELSE IF kind = "children" THEN "parent"
  ELSE IF kind = "parent" THEN "related"
  ELSE "return"

(* mutant of NextPc: the lookup of the parent is left out *)
NextPc_SkipParent(kind) ==
  IF kind = "labels" THEN "comments"
  ELSE IF kind = "comments" THEN "children"
  ELSE IF kind = "children" THEN "related"
  ELSE "return"

(* the statement that follows the lookup of `kind` *)
NextPc(kind) ==
  IF kind = "labels" THEN "comments"
  ELSE IF kind = "comments" THEN "parent"
  ELSE IF kind = "parent" THEN "children"
  ELSE IF kind = "children" THEN "related"
  ELSE "return"

(* mutant of AfterLookup: the error of a failed lookup is wrapped           *)
(* (.context("Failed to enrich ticket") before `?`)                         *)
AfterLookup_Context(kind, e, outcome) ==
  IF outcome.ok
  THEN [pc |-> NextPc(kind), enriched |-> Assign(e, kind, outcome.val),
        result |-> NoValue]
  ELSE [pc |-> "done", enriched |-> e, result |-> Err("Failed to enrich ticket")]

(* mutant of AfterLookup: a failed lookup leaves the field as it is and the *)
(* function goes on (unwrap_or_default instead of `?`)                      *)
AfterLookup_Swallow(kind, e, outcome) ==
  IF outcome.ok
  THEN [pc |-> NextPc(kind), enriched |-> Assign(e, kind, outcome.val),
        result |-> NoValue]
  ELSE [pc |-> NextPc(kind), enriched |-> e, result |-> NoValue]

(* `enriched.<field> = self.fetch_..(&ticket.id, verbose).await?`: the      *)
(* value is assigned, or the error leaves the function                      *)
AfterLookup(kind, e, outcome) ==
  IF outcome.ok
  THEN [pc |-> NextPc(kind), enriched |-> Assign(e, kind, outcome.val),
        result |-> NoValue]
  ELSE [pc |-> "done", enriched |-> e, result |-> Err(outcome.err)]

CodecVars == <<origin, doc, rest, dec, doc2>>

InitEnrich ==
  /\ ticket \in BaseTickets
  /\ skip_labels \in BOOLEAN
  /\ remote \in Remotes
  /\ pc = "clone"
  /\ enriched = NoValue
  /\ calls = <<>>
  /\ result = NoValue
  /\ origin = "remote"
  /\ doc = ""
  /\ rest = <<>>
  /\ dec = NoValue
  /\ doc2 = ""
  /\ args = NoValue
  /\ phase = "none"
  /\ tickets = <<>>
  /\ selected = <<>>
  /\ enriched_tickets = <<>>
  /\ written = <<>>
  /\ log = <<>>
  /\ save_i = 0

(* let mut enriched = ticket.clone(); if !skip_labels { .. } *)
EnrichStart ==
  /\ pc = "clone"
  /\ enriched' = ticket
  /\ pc' = (IF skip_labels THEN "comments" ELSE "labels")
  /\ UNCHANGED <<ticket, skip_labels, remote, calls, result, CodecVars, RunVars>>

Fetch(kind) ==
  /\ pc = kind
  /\ calls' = Append(calls, Request(kind, ticket))
  /\ LET a == AfterLookup(kind, enriched, remote[kind])
     IN  /\ pc' = a.pc
         /\ enriched' = a.enriched
         /\ result' = a.result
  /\ UNCHANGED <<ticket, skip_labels, remote, CodecVars, RunVars>>

FetchLabels == Fetch("labels")

FetchComments == Fetch("comments")

FetchParent == Fetch("parent")

FetchChildren == Fetch("children")

FetchRelated == Fetch("related")

(* Ok(enriched) *)
EnrichReturn ==
  /\ pc = "return"
  /\ result' = Ok(enriched)
  /\ pc' = "done"
  /\ UNCHANGED <<ticket, skip_labels, remote, enriched, calls, CodecVars, RunVars>>

NextEnrich ==
  \/ EnrichStart
  \/ FetchLabels
  \/ FetchComments
  \/ FetchParent
  \/ FetchChildren
  \/ FetchRelated
  \/ EnrichReturn

SpecEnrich == InitEnrich /\ [][NextEnrich]_vars

-----------------------------------------------------------------------------
(* Properties of enrich_ticket, under SpecEnrich.                           *)

CallCount(kind) == Cardinality({i \in DOMAIN calls : calls[i].kind = kind})

IssuedKinds == {calls[i].kind : i \in DOMAIN calls}

NonRelationalFields ==
  {"id", "title", "description", "priority", "estimate", "url", "state",
   "created_at", "updated_at", "assignee"}

(* C2: when a sub-lookup that was issued has failed, enrich_ticket ends    *)
(* with an error that carries no Ticket; a Ticket is returned only when    *)
(* every issued sub-lookup succeeded, and nothing is returned before the   *)
(* function ends.                                                          *)
C2_AllOrNothing ==
  /\ pc # "done" => result = NoValue
  /\ pc = "done" =>
       /\ (\E k \in IssuedKinds : ~remote[k].ok) =>
            (~result.ok /\ DOMAIN result = {"ok", "err"})
       /\ result.ok => \A k \in IssuedKinds : remote[k].ok

(* C2 witness: labels succeeded, comments failed, the call ended in error  *)
C2_Witness ==
  /\ pc = "done"
  /\ ~skip_labels
  /\ remote.labels.ok /\ ~remote.comments.ok
  /\ remote.parent.ok /\ remote.children.ok /\ remote.related.ok
  /\ calls = <<Request("labels", ticket), Request("comments", ticket)>>
  /\ ~result.ok

(* C7: a successful enrich_ticket returns a Ticket equal to the input on   *)
(* the non-relational fields, whose comments, parent, children and         *)
(* related_tickets are the lookup results and whose labels are the result  *)
(* of the label lookup when it was issued; the input is never modified.    *)
C7_FrameOfEnrich ==
  /\ [](pc = "done" /\ result.ok =>
          /\ \A f \in NonRelationalFields : result.val[f] = ticket[f]
          /\ result.val.comments = remote.comments.val
          /\ result.val.parent = remote.parent.val
          /\ result.val.children = remote.children.val
          /\ result.val.related_tickets = remote.related.val
          /\ ~skip_labels => result.val.labels = remote.labels.val)
  /\ [][ticket' = ticket]_vars

(* C7 witness: a successful call that looked up the labels too *)
C7_Witness ==
  /\ pc = "done" /\ result.ok /\ ~skip_labels
  /\ result.val.comments # <<>> /\ result.val.parent # None
  /\ result.val.children # <<>> /\ result.val.related_tickets # <<>>
  /\ result.val # ticket

(* C8: no sub-lookup is issued twice, every request carries the id of the   *)
(* input ticket, the label lookup is never issued when skip_labels holds;   *)
(* a successful call issued comments, parent, children and related exactly  *)
(* once and labels exactly once unless skipped, and with skip_labels the    *)
(* labels returned are those of the input.                                  *)
C8_LookupsOnce ==
  /\ \A i \in DOMAIN LookupKinds : CallCount(LookupKinds[i]) <= 1
  /\ \A i \in DOMAIN calls : calls[i].id = ticket.id
  /\ skip_labels => CallCount("labels") = 0
  /\ pc = "done" /\ result.ok =>
       /\ \A k \in {"comments", "parent", "children", "related"} :
            CallCount(k) = 1
       /\ CallCount("labels") = (IF skip_labels THEN 0 ELSE 1)
       /\ skip_labels => result.val.labels = ticket.labels

(* C8 witness: a successful call with the label lookup skipped *)
C8_Witness ==
  /\ pc = "done" /\ result.ok /\ skip_labels
  /\ Len(calls) = 4

(* the sub-lookups of one call, in the order of the source *)
ActiveKinds ==
  IF skip_labels THEN SubSeq(LookupKinds, 2, 5) ELSE LookupKinds

(* the orders in which the sub-lookups of one call can be issued *)
Orders ==
  {o \in [1..Len(ActiveKinds) -> 1..Len(ActiveKinds)] :
     \A i, j \in DOMAIN o : i # j => o[i] # o[j]}

(* the statements of enrich_ticket carried out in the order o: what the     *)
(* function returns when the lookups are issued (or complete) in that order *)
RECURSIVE RunInOrder(_, _, _)
RunInOrder(o, i, e) ==
  IF i > Len(o) THEN Ok(e)
  ELSE LET k == ActiveKinds[o[i]]
           a == AfterLookup(k, e, remote[k])
       IN  IF a.pc = "done" THEN a.result
           ELSE RunInOrder(o, i + 1, a.enriched)

EnrichInOrder(o) == RunInOrder(o, 1, ticket)

(* the errors of the sub-lookups of this call that fail *)
FailingErrors ==
  {remote[ActiveKinds[i]].err :
     i \in {j \in DOMAIN ActiveKinds : ~remote[ActiveKinds[j]].ok}}

(* C9 as stated: whatever the sub-lookups answer, every order of issue     *)
(* returns what the call returned (the same Ticket or the same error).     *)
C9_OrderIndependent ==
  pc = "done" => \A o \in Orders : EnrichInOrder(o) = result

(* C9 amended: every order succeeds or fails alike, a successful call      *)
(* returns the same Ticket in every order, and a failed call returns the   *)
(* error of one of the failing sub-lookups: the same error in every order  *)
(* when all the failing sub-lookups fail with one error.                   *)
C9_OrderIndependentUpToError ==
  pc = "done" =>
    \A o \in Orders :
      LET r == EnrichInOrder(o)
      IN  /\ r.ok = result.ok
          /\ result.ok => r = result
          /\ ~result.ok => r.err \in FailingErrors
          /\ Cardinality(FailingErrors) <= 1 => r = result

(* C9 witness: a call in which two sub-lookups fail with different errors  *)
C9_Witness ==
  /\ pc = "done" /\ ~result.ok
  /\ Cardinality(FailingErrors) = 2
  /\ \E o \in Orders : EnrichInOrder(o) # result

-----------------------------------------------------------------------------
(* Properties of the encoder and of Ticket::from_markdown, under Spec.      *)

Titles(v) == [i \in 1..Len(v) |-> <<v[i].title, v[i].state>>]

Bodies(v) == [i \in 1..Len(v) |-> v[i].body]

is_heading(line) == starts_with(line, "## ")

is_meta(line) ==
  \E p \in {"**Ticket ID:**", "**State:**", "**Priority:**", "**Estimate:**",
            "**URL:**", "**Labels:**"} : starts_with(line, p)

(* the non-blank lines of the section under `heading`, up to the next       *)
(* heading                                                                  *)
RECURSIVE SectionScan(_, _, _, _)
SectionScan(ls, i, heading, inside) ==
  IF i > Len(ls) THEN <<>>
  ELSE IF is_heading(ls[i]) THEN SectionScan(ls, i + 1, heading, ls[i] = heading)
  ELSE (IF inside /\ ls[i] # "" THEN <<ls[i]>> ELSE <<>>)
       \o SectionScan(ls, i + 1, heading, inside)

SectionContent(content, heading) ==
  SectionScan(str_lines(content), 1, heading, FALSE)

(* the tickets C1 is about: a one-line description, one-line comment       *)
(* bodies, non-empty labels, children and related_tickets, no parent        *)
C1_Precondition ==
  /\ origin = "encoder"
  /\ ~contains(ticket.description, "\n")
  /\ \A i \in DOMAIN ticket.comments : ~contains(ticket.comments[i].body, "\n")
  /\ ticket.labels # <<>> /\ ticket.children # <<>>
  /\ ticket.related_tickets # <<>>
  /\ ticket.parent = None

(* C1 as stated, read in the claim's favour (assignees and every            *)
(* created_at are left out of the comparison): such a Ticket is decoded     *)
(* from the document the encoder wrote for it with the same scalar fields   *)
(* and labels, the same comment users and bodies, the same children and     *)
(* the same related tickets.                                                *)
C1_RoundTrip ==
  pc = "decoded" /\ C1_Precondition =>
    /\ \A f \in {"id", "title", "description", "priority", "estimate",
                 "labels", "url", "state", "parent"} :
         result.val[f] = ticket[f]
    /\ Bodies(result.val.comments) = Bodies(ticket.comments)
    /\ \A i \in DOMAIN ticket.comments :
         i \in DOMAIN result.val.comments =>
           result.val.comments[i].user = ticket.comments[i].user
    /\ Titles(result.val.children) = Titles(ticket.children)
    /\ Titles(result.val.related_tickets) = Titles(ticket.related_tickets)

(* the Ticket with the date of every comment set to dt *)
WithCommentDates(t, dt) ==
  [t EXCEPT !.comments = [i \in DOMAIN t.comments |->
                            [t.comments[i] EXCEPT !.created_at = dt]]]

(* C3 as stated: the document written by the encoder, decoded and encoded   *)
(* again, is the same document, the dates of the comment lines apart.       *)
C3_ReencodeStable ==
  pc = "reencoded" /\ origin = "encoder" =>
    doc2 = ticket_file_content(WithCommentDates(ticket, SentinelDate))

(* the text of an entry line `- <title> (State: <state>)` as a pair *)
is_entry(line) ==
  starts_with(line, "- ") /\ ends_with(line, ")") /\ contains(line, " (State: ")

entry_pair(line) ==
  LET i == find(line, " (State: ")
  IN  <<SubSeq(line, 3, i - 1), SubSeq(line, i + 9, Len(line) - 1)>>

(* the entry lines that stand under a Related Tickets or a Child Tickets    *)
(* heading (up to the next heading), in document order                      *)
RECURSIVE EntryScan(_, _, _)
EntryScan(ls, i, inside) ==
  IF i > Len(ls) THEN <<>>
  ELSE IF is_heading(ls[i])
  THEN EntryScan(ls, i + 1,
                 ls[i] \in {"## Related Tickets", "## Child Tickets"})
  ELSE (IF inside /\ is_entry(ls[i]) THEN <<entry_pair(ls[i])>> ELSE <<>>)
       \o EntryScan(ls, i + 1, inside)

(* whether a is b with some elements left out, the order kept *)
RECURSIVE IsSubList(_, _)
IsSubList(a, b) ==
  IF a = <<>> THEN TRUE
  ELSE IF b = <<>> THEN FALSE
  ELSE IF Head(a) = Head(b) THEN IsSubList(Tail(a), Tail(b))
  ELSE IsSubList(a, Tail(b))

(* C4 as stated: in every document the entry lines under either heading     *)
(* are among the decoded children, in document order, and no related        *)
(* ticket is decoded.                                                       *)
C4_EntriesAreChildren ==
  pc = "decoded" =>
    /\ result.val.related_tickets = <<>>
    /\ IsSubList(EntryScan(str_lines(doc), 2, FALSE),
                 Titles(result.val.children))

(* the comment-line shape *)
is_comment_line(line) ==
  starts_with(line, "- ") /\ contains(line, "(") /\ contains(line, "): ")

(* the comment bodies of the Comments section when every line that follows *)
(* a comment line and has not its shape continues the body (metadata and    *)
(* heading lines are no content lines)                                      *)
RECURSIVE BodyScan(_, _, _, _)
BodyScan(ls, i, inside, acc) ==
  IF i > Len(ls) THEN acc
  ELSE IF is_meta(ls[i]) THEN BodyScan(ls, i + 1, inside, acc)
  ELSE IF is_heading(ls[i]) THEN BodyScan(ls, i + 1, ls[i] = "## Comments", acc)
  ELSE IF ~inside THEN BodyScan(ls, i + 1, inside, acc)
  ELSE IF is_comment_line(ls[i])
  THEN BodyScan(ls, i + 1, inside,
                Append(acc, SubSeq(ls[i], find(ls[i], ": ") + 2, Len(ls[i]))))
  ELSE IF acc = <<>> THEN BodyScan(ls, i + 1, inside, acc)
  ELSE BodyScan(ls, i + 1, inside,
                [acc EXCEPT ![Len(acc)] = @ \o "\n" \o ls[i]])

ExpectedBodies(content) ==
  LET b == BodyScan(str_lines(content), 2, FALSE, <<>>)
  IN  [i \in DOMAIN b |-> trim(b[i])]

(* C5 as stated: the decoded comments carry, each, its comment line's text *)
(* and the lines that continue it, joined by newlines.                     *)
C5_MultiLineComments ==
  pc = "decoded" =>
    \A i \in DOMAIN ExpectedBodies(doc) :
      i \in DOMAIN result.val.comments =>
        result.val.comments[i].body = ExpectedBodies(doc)[i]

(* C6: from_markdown ends with the error `Missing title line` when the     *)
(* document is empty and only then; every other document is decoded to a   *)
(* Ticket.                                                                 *)
C6_FailsOnlyOnEmpty ==
  /\ pc = "failed" => doc = "" /\ result = Err("Missing title line")
  /\ pc \in {"loop", "decoded", "reencoded"} => doc # ""
  /\ pc \in {"decoded", "reencoded"} => result.ok
  /\ pc = "loop" => result = NoValue

(* C6 witness: the empty document was refused *)
C6_Witness == pc = "failed" /\ doc = "" /\ ~result.ok

EmptyCollections(t) ==
  t.labels = <<>> /\ t.comments = <<>> /\ t.children = <<>>
  /\ t.related_tickets = <<>>

(* C10: a Ticket with no labels, comments, children and related tickets is *)
(* written with None on the Labels line and None as the only content line  *)
(* of the Comments, Related Tickets and Child Tickets sections, and that   *)
(* document decodes to empty labels, comments, children and related        *)
(* tickets.                                                                *)
C10_EmptyCollections ==
  origin = "encoder" /\ EmptyCollections(ticket) =>
    /\ pc # "encode" =>
         /\ \E i \in DOMAIN str_lines(doc) : str_lines(doc)[i] = "**Labels:** None"
         /\ \A i \in DOMAIN str_lines(doc) :
              starts_with(str_lines(doc)[i], "**Labels:**")
                => str_lines(doc)[i] = "**Labels:** None"
         /\ SectionContent(doc, "## Comments") = <<"None">>
         /\ SectionContent(doc, "## Related Tickets") = <<"None">>
         /\ SectionContent(doc, "## Child Tickets") = <<"None">>
    /\ pc = "decoded" => EmptyCollections(result.val)

(* C10 witness: such a Ticket was written and decoded *)
C10_Witness ==
  /\ origin = "encoder" /\ EmptyCollections(ticket)
  /\ pc = "decoded" /\ result.ok /\ EmptyCollections(result.val)
  /\ ticket.description # ""

(* the lines of content that start with prefix, in document order *)
LinesWith(content, prefix) ==
  SelectSeq(str_lines(content), LAMBDA l : starts_with(l, prefix))

(* the text of an absent or whole-number estimate, as C11 states it *)
EstimateText(e) ==
  IF e = None THEN "Not estimated" ELSE nat_to_string(unwrap(e).int)

IsWhole(e) == e = None \/ unwrap(e).frac = ""

(* C11: a Ticket with an absent estimate is written with the line          *)
(* `**Estimate:** Not estimated` and one with the whole-number estimate n  *)
(* with `**Estimate:** n`; a file whose only Estimate line carries         *)
(* `Not estimated` decodes to an absent estimate and one whose only        *)
(* Estimate line carries the digits of n decodes to the estimate n; the    *)
(* estimate of such a Ticket comes back from the document written for it.  *)
C11_EstimateRoundTrip ==
  /\ origin = "encoder" /\ pc = "saved" /\ IsWhole(ticket.estimate) =>
       LinesWith(doc, "**Estimate:**")
         = << "**Estimate:** " \o EstimateText(ticket.estimate) >>
  /\ pc = "decoded" /\ origin = "file"
       /\ Len(LinesWith(doc, "**Estimate:**")) = 1 =>
       LET l == LinesWith(doc, "**Estimate:**")[1]
           v == SubSeq(l, Len("**Estimate:** ") + 1, Len(l))
       IN  /\ v = "Not estimated" => result.val.estimate = None
           /\ is_digits(v) =>
                result.val.estimate = Some(F64(digits_value(v), ""))
  /\ pc = "decoded" /\ origin = "encoder" /\ IsWhole(ticket.estimate) =>
       result.val.estimate = ticket.estimate

(* C11 witness: the estimate 3 was written as `3` and decoded as 3 *)
C11_Witness ==
  /\ pc = "decoded" /\ origin = "encoder"
  /\ ticket.estimate = Some(F64(3, ""))
  /\ LinesWith(doc, "**Estimate:**") = << "**Estimate:** 3" >>
  /\ result.val.estimate = Some(F64(3, ""))

(* C12: when enrich_ticket ends in error, the sub-lookup issued last is the *)
(* one that failed (all before it succeeded) and the error returned is     *)
(* the error of that sub-lookup, as it was.                                *)
C12_ErrorUnchanged ==
  pc = "done" /\ ~result.ok =>
    /\ calls # <<>>
    /\ \A i \in 1..(Len(calls) - 1) : remote[calls[i].kind].ok
    /\ LET failed == remote[calls[Len(calls)].kind]
       IN  ~failed.ok /\ result = failed /\ result.err \in LookupErrors

(* C12 witness: the lookup of the children failed after three that did not *)
C12_Witness ==
  /\ pc = "done" /\ ~result.ok /\ skip_labels
  /\ Len(calls) = 3 /\ calls[3].kind = "children"
  /\ remote.children = Err("Linear API returned GraphQL errors")
  /\ remote.related = Err("Failed to send request to Linear API")
  /\ result.err = "Linear API returned GraphQL errors"

(* the values of the lines of content that start with prefix *)
FieldTexts(content, prefix) ==
  LET ls == LinesWith(content, prefix)
  IN  [i \in DOMAIN ls |-> trim(SubSeq(ls[i], Len(prefix) + 1, Len(ls[i])))]

AllOf(v, S) == \A i \in DOMAIN v : v[i] \in S

NoneIsDigits(v) == \A i \in DOMAIN v : ~is_digits(v[i])

HasLineWith(content, text) ==
  \E i \in DOMAIN str_lines(content) : contains(str_lines(content)[i], text)

(* the defaults of the fields other than labels: a field with no line, or  *)
(* with malformed lines only, has its default in the decoded Ticket        *)
DefaultsOfMissing ==
  pc = "decoded" =>
    /\ result.ok
    /\ FieldTexts(doc, "**Ticket ID:**") = <<>> => result.val.id = ""
    /\ FieldTexts(doc, "**State:**") = <<>> => result.val.state = ""
    /\ FieldTexts(doc, "**URL:**") = <<>> => result.val.url = ""
    /\ ~HasLineWith(doc, "## Description") => result.val.description = ""
    /\ NoneIsDigits(FieldTexts(doc, "**Priority:**")) => result.val.priority = 0
    /\ NoneIsDigits(FieldTexts(doc, "**Estimate:**")) => result.val.estimate = None
    /\ ~HasLineWith(doc, "): ") => result.val.comments = <<>>
    /\ ~HasLineWith(doc, "(State: ") =>
         result.val.children = <<>> /\ result.val.related_tickets = <<>>

(* C13 as stated: no document is refused for a missing or malformed field, *)
(* and such a field has its default: the empty string, priority 0, no      *)
(* estimate, and the empty sequence for labels (also when the Labels value *)
(* is empty), comments, children and related tickets.                      *)
C13_DecodeTolerance ==
  /\ DefaultsOfMissing
  /\ pc = "decoded" /\ AllOf(FieldTexts(doc, "**Labels:**"), {""}) =>
       result.val.labels = <<>>

(* the head of a comment line: `- <user or Unknown> (<YYYY-MM-DD>): ` *)
comment_head(c) ==
  "- " \o (IF c.user = None THEN "Unknown" ELSE unwrap(c.user))
       \o " (" \o Pad(c.created_at.y, 4) \o "-" \o Pad(c.created_at.m, 2)
       \o "-" \o Pad(c.created_at.d, 2) \o "): "

(* C14 as stated: the Comments section of the written document is the one  *)
(* line `None` for a Ticket with no comments and else holds one line per   *)
(* comment, in comment order, each starting with the head of its comment   *)
(* (and being head and body when the body has no newline), also when a     *)
(* body contains newlines.                                                 *)
C14_OneLinePerComment ==
  pc = "saved" /\ origin = "encoder" =>
    LET sec == SectionContent(doc, "## Comments")
    IN  IF ticket.comments = <<>> THEN sec = <<"None">>
        ELSE /\ Len(sec) = Len(ticket.comments)
             /\ \A i \in DOMAIN ticket.comments :
                  /\ starts_with(sec[i], comment_head(ticket.comments[i]))
                  /\ ~contains(ticket.comments[i].body, "\n") =>
                       sec[i] = comment_head(ticket.comments[i])
                                  \o ticket.comments[i].body

(* C15: every Ticket handed to the encoder is written (the step is enabled *)
(* for each of them), and the document is made of the title line, a blank  *)
(* line, the six metadata lines Ticket ID, State, Priority, Estimate, URL, *)
(* Labels in this order, and the four sections Description, Comments,      *)
(* Related Tickets, Child Tickets in this order; the document is the one   *)
(* the Ticket determines.                                                  *)
C15_DocumentLayout ==
  /\ pc = "encode" => ENABLED Encode
  /\ pc = "saved" /\ origin = "encoder" =>
       LET ls == str_lines(doc)
       IN  /\ Len(ls) >= 10
           /\ ls[1] = "# Ticket: " \o ticket.title
           /\ ls[2] = ""
           /\ ls[3] = "**Ticket ID:** " \o ticket.id
           /\ ls[4] = "**State:** " \o ticket.state
           /\ ls[5] = "**Priority:** " \o i32_to_string(ticket.priority)
           /\ starts_with(ls[6], "**Estimate:** ")
           /\ ls[7] = "**URL:** " \o ticket.url
           /\ starts_with(ls[8], "**Labels:** ")
           /\ ls[9] = ""
           /\ ls[10] = "## Description"
           /\ SelectSeq(ls, is_heading)
                = << "## Description", "## Comments", "## Related Tickets",
                     "## Child Tickets" >>
           /\ SelectSeq(ls, is_meta) = SubSeq(ls, 3, 8)
           /\ doc = ticket_file_content(ticket)

(* C15 witness: a Ticket with content in every section was written *)
C15_Witness ==
  /\ pc = "saved" /\ origin = "encoder"
  /\ ticket.description # "" /\ ticket.labels # <<>>
  /\ ticket.comments # <<>> /\ ticket.children # <<>>
  /\ ticket.related_tickets # <<>> /\ ticket.estimate # None
  /\ Len(str_lines(doc)) > 20

(* the comments v with other ids *)
WithCommentIds(v, tag) ==
  [i \in DOMAIN v |-> [v[i] EXCEPT !.id = tag \o nat_to_string(i)]]

(* the related or child tickets v with other ids and another assignee *)
WithEntryIds(v, tag, a) ==
  [i \in DOMAIN v |-> [v[i] EXCEPT !.id = tag \o nat_to_string(i),
                                   !.assignee = a]]

(* the Tickets that differ from t at most in parent, assignee, created_at, *)
(* updated_at, the ids of the comments and the ids and assignees of the     *)
(* children and related tickets                                            *)
Variants(t) ==
  { [t EXCEPT !.parent = p, !.assignee = a, !.created_at = d,
              !.updated_at = d,
              !.comments = WithCommentIds(t.comments, tag),
              !.children = WithEntryIds(t.children, tag, ra),
              !.related_tickets = WithEntryIds(t.related_tickets, tag, ra)] :
      p \in Parents, a \in {None, Some("Zed")},
      d \in {t.created_at, DateTime(2020, 2, 29, 7)},
      tag \in {"X-", "Y-"}, ra \in {None, Some("Zed")} }

(* C16: every Ticket that differs from the written one only in parent,     *)
(* assignee, created_at, updated_at, comment ids and the ids and assignees *)
(* of children and related tickets is written as the same document.        *)
C16_UnrenderedFields ==
  pc = "saved" /\ origin = "encoder" =>
    \A v \in Variants(ticket) : ticket_file_content(v) = doc

(* C16 witness: a written Ticket with comments, children and related       *)
(* tickets, of which another Ticket differs in every such field            *)
C16_Witness ==
  /\ pc = "saved" /\ origin = "encoder"
  /\ ticket.comments # <<>> /\ ticket.children # <<>>
  /\ ticket.related_tickets # <<>>
  /\ \E v \in Variants(ticket) :
       /\ v.parent # ticket.parent /\ v.assignee # ticket.assignee
       /\ v.created_at # ticket.created_at /\ v.updated_at # ticket.updated_at
       /\ v.comments[1].id # ticket.comments[1].id
       /\ v.children[1].id # ticket.children[1].id
       /\ v.children[1].assignee # ticket.children[1].assignee
       /\ v.related_tickets[1].id # ticket.related_tickets[1].id
       /\ v.related_tickets[1].assignee # ticket.related_tickets[1].assignee
       /\ ticket_file_content(v) = doc

Ids(v) == [i \in DOMAIN v |-> v[i].id]

Distinct(v) == \A i, j \in DOMAIN v : i # j => v[i] # v[j]

PlaceholderEntries(v) ==
  \A i \in DOMAIN v :
    /\ v[i].assignee = None
    /\ v[i].id = "placeholder_" \o nat_to_string(i - 1)

(* C17: a decoded Ticket has no assignee and no parent; its children and   *)
(* related tickets have no assignee and the id placeholder_<n>, n counting *)
(* from 0 along the list; its comments have the id from_file_<n>, n        *)
(* counting from 0 along comments; no id occurs twice in a list.           *)
C17_SynthesizedIds ==
  pc = "decoded" =>
    /\ result.val.assignee = None /\ result.val.parent = None
    /\ PlaceholderEntries(result.val.children)
    /\ PlaceholderEntries(result.val.related_tickets)
    /\ \A i \in DOMAIN result.val.comments :
         result.val.comments[i].id = "from_file_" \o nat_to_string(i - 1)
    /\ Distinct(Ids(result.val.children))
    /\ Distinct(Ids(result.val.related_tickets))
    /\ Distinct(Ids(result.val.comments))

(* C17 witness: the document of a Ticket with an assignee and an assigned   *)
(* child was decoded to two children and two comments                      *)
C17_Witness ==
  /\ pc = "decoded" /\ origin = "encoder"
  /\ ticket.assignee # None /\ ticket.children # <<>>
  /\ ticket.children[1].assignee # None
  /\ Len(result.val.children) = 2 /\ Len(result.val.comments) = 2
  /\ Ids(result.val.children) = <<"placeholder_0", "placeholder_1">>
  /\ Ids(result.val.comments) = <<"from_file_0", "from_file_1">>

(* the comment-shaped lines of the Comments section, in document order *)
CommentLinesOf(content) ==
  SelectSeq(SectionContent(content, "## Comments"), is_comment_line)

(* the date string of a comment line: the last bracket of its head *)
date_of(line) ==
  LET parts == split(splitn2(line, ": ")[1], " (")
  IN  trim_end_matches(parts[Len(parts)], ")")

(* the calendar date a YYYY-MM-DD string names, the sentinel for any other *)
DateNamed(s) ==
  IF parse_ymd(s).ok
  THEN [y |-> parse_ymd(s).val.year, m |-> parse_ymd(s).val.month,
        d |-> parse_ymd(s).val.day]
  ELSE [y |-> SentinelDate.y, m |-> SentinelDate.m, d |-> SentinelDate.d]

CalendarDate(dt) == [y |-> dt.y, m |-> dt.m, d |-> dt.d]

(* C18 as stated, for the documents decoded to one Comment per comment     *)
(* line: each Comment has the calendar date its line names, and the        *)
(* sentinel 2021-01-01 when the line names none; the document written from *)
(* the decoded Ticket shows the dates of the lines that name one.          *)
C18_CommentDateDecoded ==
  /\ pc = "decoded" =>
       LET cl == CommentLinesOf(doc)
       IN  Len(cl) = Len(result.val.comments) =>
             \A i \in DOMAIN cl :
               CalendarDate(result.val.comments[i].created_at)
                 = DateNamed(date_of(cl[i]))
  /\ pc = "reencoded" =>
       LET cl  == CommentLinesOf(doc)
           cl2 == CommentLinesOf(doc2)
       IN  Len(cl) = Len(result.val.comments) /\ Len(cl2) = Len(cl) =>
             \A i \in DOMAIN cl :
               parse_ymd(date_of(cl[i])).ok => date_of(cl2[i]) = date_of(cl[i])

(* the lines of the document the loop has passed *)
Consumed ==
  LET ls == str_lines(doc)
  IN  SubSeq(ls, 2, Len(ls) - Len(rest))

(* the last heading line of ls, "" when it has none *)
RECURSIVE LastHeading(_)
LastHeading(ls) ==
  IF ls = <<>> THEN ""
  ELSE IF is_heading(ls[Len(ls)]) THEN ls[Len(ls)]
  ELSE LastHeading(SubSeq(ls, 1, Len(ls) - 1))

is_content(line) == ~is_meta(line) /\ ~is_heading(line)

(* the loop is at a content line that stands under a Related Tickets or a  *)
(* Child Tickets heading                                                   *)
AtEntrySectionLine ==
  /\ pc = "loop" /\ rest # <<>>
  /\ is_content(Head(rest))
  /\ LastHeading(Consumed) \in {"## Related Tickets", "## Child Tickets"}

(* C19 as stated: the step of the loop at a content line under a Related   *)
(* Tickets or a Child Tickets heading neither appends to the description   *)
(* nor treats the line as a comment (no comment is started or saved),      *)
(* whatever the headings before.                                           *)
C19_EntrySectionState ==
  [][AtEntrySectionLine =>
       /\ dec'.description = dec.description
       /\ dec'.comments = dec.comments
       /\ dec'.current_comment = dec.current_comment
       /\ dec'.comment_user = dec.comment_user
       /\ dec'.comment_date = dec.comment_date]_vars

(* the body a comment line carries: the text after its head *)
body_of(line) == trim(splitn2(line, ": ")[2])

LineBodies(v) == [i \in DOMAIN v |-> body_of(v[i])]

(* C20 as stated, the lower half: every comment-shaped line of the         *)
(* Comments section has its Comment among the decoded comments, in         *)
(* document order, none dropped, a line with an empty body included.       *)
C20_OneCommentPerLine ==
  pc = "decoded" =>
    /\ Len(result.val.comments) >= Len(CommentLinesOf(doc))
    /\ IsSubList(LineBodies(CommentLinesOf(doc)), Bodies(result.val.comments))

NonBlank(v) == SelectSeq(v, LAMBDA l : l # "")

(* C21 as stated, on the documents the encoder wrote: the decoded          *)
(* description is the description that was written, and its non-blank      *)
(* lines are the non-blank lines of the Description section, none dropped  *)
(* and none added.                                                         *)
C21_DescriptionRecovered ==
  pc = "decoded" /\ origin = "encoder" =>
    /\ result.val.description = ticket.description
    /\ NonBlank(split(result.val.description, "\n"))
         = SectionContent(doc, "## Description")

MetaPrefixes ==
  << "**Ticket ID:**", "**State:**", "**Priority:**", "**Estimate:**",
     "**URL:**", "**Labels:**" >>

MetaFields == << "id", "state", "priority", "estimate", "url", "labels" >>

(* the locals a metadata line must leave alone *)
ContentFields ==
  {"description", "comments", "current_comment", "comment_user",
   "comment_date", "children", "related_tickets"}

(* the loop is at a line that starts with a metadata prefix *)
AtMetaLine == pc = "loop" /\ rest # <<>> /\ is_meta(Head(rest))

(* the step at a metadata line leaves the description, the comments and    *)
(* the entries as they are, in every state of the decoder                  *)
MetaLineConsumed ==
  [][AtMetaLine => \A f \in ContentFields : dec'[f] = dec[f]]_vars

(* C22 as stated: the step at a metadata line, in every state of the       *)
(* decoder, leaves the description, the comments and the entries as they   *)
(* are and gives the line's field the value this line determines (the      *)
(* value the line gives when it is the only one with its prefix), whatever *)
(* earlier lines with the same prefix gave.                                *)
C22_MetadataPriority ==
  [][AtMetaLine =>
       /\ \A f \in ContentFields : dec'[f] = dec[f]
       /\ LET alone == ParseLine(DecoderInit("# Ticket: T"), Head(rest))
          IN  \A k \in DOMAIN MetaPrefixes :
                starts_with(Head(rest), MetaPrefixes[k]) =>
                  dec'[MetaFields[k]] = alone[MetaFields[k]]]_vars

-----------------------------------------------------------------------------
(* The order of the sub-lookups of enrich_ticket, under SpecEnrich.         *)

(* the positions, in the order of the source, of the sub-lookups that fail *)
FailingPositions == {j \in DOMAIN ActiveKinds : ~remote[ActiveKinds[j]].ok}

(* C24: the sub-lookups are issued one after another in the order labels    *)
(* (unless skipped), comments, parent, children, related, each only after   *)
(* the previous one succeeded; after a failing one the call has ended and   *)
(* nothing more is issued; a call that ends with every lookup successful    *)
(* has issued them all, and a failed call returns the error of the first    *)
(* failing sub-lookup in this order.                                        *)
C24_SequentialLookups ==
  /\ Len(calls) <= Len(ActiveKinds)
  /\ \A i \in DOMAIN calls : calls[i] = Request(ActiveKinds[i], ticket)
  /\ \A i \in DOMAIN calls : i < Len(calls) => remote[calls[i].kind].ok
  /\ \A i \in DOMAIN calls :
       ~remote[calls[i].kind].ok => i = Len(calls) /\ pc = "done"
  /\ pc = "done" =>
       IF FailingPositions = {}
       THEN result.ok /\ Len(calls) = Len(ActiveKinds)
       ELSE /\ ~result.ok
            /\ Len(calls) = SetMin(FailingPositions)
            /\ result.err = remote[ActiveKinds[SetMin(FailingPositions)]].err

(* C24 witness: the parent and the related lookups fail with different      *)
(* errors; the call ended after three lookups with the error of the parent  *)
C24_Witness ==
  /\ pc = "done" /\ ~skip_labels
  /\ FailingPositions = {3, 5}
  /\ remote.parent.err # remote.related.err
  /\ Len(calls) = 3 /\ calls[3].kind = "parent"
  /\ ~result.ok /\ result.err = remote.parent.err

-----------------------------------------------------------------------------
(* The users of decoded comments, under Spec.                               *)

(* C29: every Comment of a decoded Ticket has a present user, whatever the  *)
(* document; in a document the encoder wrote, the line of a comment with    *)
(* an absent user names the user `Unknown`, and the comment decodes to one  *)
(* whose user is present and is `Unknown`, while a present user is decoded  *)
(* as it was.                                                               *)
C29_CommentUserPresent ==
  pc = "decoded" /\ result.ok =>
    /\ \A i \in DOMAIN result.val.comments :
         is_some(result.val.comments[i].user)
    /\ origin = "encoder" =>
         /\ Len(result.val.comments) = Len(ticket.comments)
         /\ \A i \in DOMAIN ticket.comments :
              LET c == ticket.comments[i]
              IN  IF is_some(c.user)
                  THEN result.val.comments[i].user = c.user
                  ELSE /\ starts_with(comment_line(c), "- Unknown (")
                       /\ contains(doc, comment_line(c))
                       /\ result.val.comments[i].user = Some("Unknown")

(* C29 witness: an encoded ticket with a comment of an absent user was      *)
(* decoded, and the comment came back with the user `Unknown`               *)
C29_Witness ==
  /\ pc = "decoded" /\ origin = "encoder" /\ result.ok
  /\ Len(ticket.comments) = 2 /\ ticket.comments[2].user = None
  /\ Len(result.val.comments) = 2
  /\ result.val.comments[2].user = Some("Unknown")

-----------------------------------------------------------------------------
(* The two encoders of main, under Spec.                                    *)

(* C30: the encoder of the assignee mode produces, for every Ticket, the    *)
(* document the encoder of the --ticket-id mode produces, character for     *)
(* character: for the Ticket that was saved and for the decoded Ticket      *)
(* that was written again.                                                  *)
C30_EncodersAgree ==
  /\ origin = "encoder" /\ pc = "saved" =>
       ticket_file_content_assignee(ticket) = doc
  /\ pc = "reencoded" =>
       ticket_file_content_assignee(result.val) = doc2

(* C30 witness: a saved document of a ticket with labels, an estimate, a    *)
(* description, comments, a related ticket and a child, which the encoder   *)
(* of the assignee mode writes alike                                        *)
C30_Witness ==
  /\ origin = "encoder" /\ pc = "saved"
  /\ ticket.labels # <<>> /\ is_some(ticket.estimate)
  /\ ticket.description # "" /\ Len(ticket.comments) = 2
  /\ ticket.related_tickets # <<>> /\ ticket.children # <<>>
  /\ doc = ticket_file_content_assignee(ticket)
  /\ ends_with(doc, ")\n\n")

-----------------------------------------------------------------------------
(* main: one run of the program in each of its modes.                       *)

MaxTickets == 2

(* the tickets of the user the tracker holds, as fetch_user_tickets and     *)
(* fetch_ticket_by_id build them                                            *)
UserTicketPool ==
  << NewTicket("ENG-1", "Fix bug", "Save fails", 2, None, <<>>,
               "https://l.app/ENG-1", "Open", DateTime(2024, 1, 1, 0),
               DateTime(2024, 1, 2, 0), Some("Ann")),
     NewTicket("ENG-2", "Add export", "", 0, Some(F64(3, "")), <<>>,
               "https://l.app/ENG-2", "In Progress", DateTime(2024, 2, 1, 0),
               DateTime(2024, 2, 1, 0), Some("Ann")),
     NewTicket("ENG-5", "Docs: API", "Steps\nto see", 1, None, <<>>,
               "https://l.app/ENG-5", "Open", DateTime(2024, 3, 1, 0),
               DateTime(2024, 3, 2, 0), Some("Ann")) >>

(* what the tracker answers to the sub-lookups of one ticket during a run *)
RunRemotes ==
  [labels   : OutcomesOf({<<"bug", "ui">>}),
   comments : OutcomesOf({SubSeq(CommentPool, 1, 1)}),
   parent   : OutcomesOf({None}),
   children : OutcomesOf({SubSeq(ChildPool, 1, 1)}),
   related  : OutcomesOf({<<>>})]

(* the errors generate_text returns *)
AnthropicErrors ==
  {"Failed to send request to Anthropic API",
   "Anthropic API returned empty response"}

(* what generate_implementation_plan answers *)
PlanOutcomes ==
  {Ok("1. Reproduce\n2. Fix")} \cup {Err(e) : e \in AnthropicErrors}

(* the command lines: --check-update, --ticket <file>, --ticket-id <id>,    *)
(* --plan                                                                   *)
RunArgs ==
  [check_update : BOOLEAN, ticket : {None, Some("saved.md")},
   ticket_id : {None, Some("ENG-1")}, plan : BOOLEAN]

(* the states --ticket can find its file in: absent, unreadable, or holding *)
(* a text                                                                   *)
FileStates ==
  {[exists |-> FALSE, readable |-> FALSE, content |-> ""],
   [exists |-> TRUE, readable |-> FALSE, content |-> ""]}
  \cup {[exists |-> TRUE, readable |-> TRUE, content |-> c] :
          c \in {"", "# Ticket: Fix bug\n\n**Ticket ID:** ENG-1\n**State:** Open\n**Labels:** None\n\n## Description\n\nSave fails\n\n## Comments\n\n- Ann (2024-01-05): ok\n"}}

(* the value of Ok(()) *)
Unit == "()"

(* a request main issues itself and how it was answered: r is the Result   *)
(* of the call                                                              *)
MainRequest(kind, id, r) ==
  [kind |-> kind, id |-> id, ok |-> r.ok, err |-> IF r.ok THEN "" ELSE r.err]

(* what test_connection of the tracker client answers *)
LinearTestOutcomes == {Ok("Ann"), Err("Failed to send request to Linear API")}

(* what test_connection of the generative API client answers *)
AnthropicTestOutcomes ==
  {Ok("Connection successful"), Err("Failed to send request to Anthropic API")}

(* a file main wrote *)
File(dir, name, content) == [dir |-> dir, name |-> name, content |-> content]

Alphanumerics ==
  {"a", "b", "c", "d", "e", "f", "g", "h", "i", "j", "k", "l", "m", "n", "o",
   "p", "q", "r", "s", "t", "u", "v", "w", "x", "y", "z", "A", "B", "C", "D",
   "E", "F", "G", "H", "I", "J", "K", "L", "M", "N", "O", "P", "Q", "R", "S",
   "T", "U", "V", "W", "X", "Y", "Z", "0", "1", "2", "3", "4", "5", "6", "7",
   "8", "9"}

(* title.chars().map(|c| if c.is_alphanumeric() { c } else { '_' }) *)
RECURSIVE safe_title(_)
safe_title(s) ==
  IF s = "" THEN ""
  ELSE (IF SubSeq(s, 1, 1) \in Alphanumerics THEN SubSeq(s, 1, 1) ELSE "_")
       \o safe_title(SubSeq(s, 2, Len(s)))

(* format!("{}-{}.md", id, &safe_title[..min(50, safe_title.len())]) *)
filename(t) ==
  LET safe == safe_title(t.title)
  IN  t.id \o "-" \o SubSeq(safe, 1, IF Len(safe) < 50 THEN Len(safe) ELSE 50)
      \o ".md"

(* the implementation plan document *)
plan_file_content(t, implementation_plan) ==
  "# Implementation Plan: " \o t.title \o "\n\n"
  \o "**Ticket ID:** " \o t.id \o "\n"
  \o "**State:** " \o t.state \o "\n"
  \o "**Priority:** " \o i32_to_string(t.priority) \o "\n"
  \o "**Estimate:** " \o estimate_str(t) \o "\n"
  \o "**URL:** " \o t.url \o "\n\n"
  \o "---\n\n"
  \o implementation_plan

(* mutant of skip_labels_of: the labels are always looked up *)
skip_labels_never(a) == FALSE

(* let skip_labels = !args.plan *)
skip_labels_of(a) == ~a.plan

(* mutant of mode_of: --ticket-id is looked at before --ticket *)
mode_of_id_first(a) ==
  IF a.check_update THEN "check_update"
  ELSE IF is_some(a.ticket_id) THEN "ticket_id"
  ELSE IF is_some(a.ticket) THEN "ticket_file"
  ELSE "assignee"

(* the mode of the run: the order in which main looks at its arguments *)
mode_of(a) ==
  IF a.check_update THEN "check_update"
  ELSE IF is_some(a.ticket) THEN "ticket_file"
  ELSE IF is_some(a.ticket_id) THEN "ticket_id"
  ELSE "assignee"

(* mutant of enrich_loop_continues: the loop ends after the first ticket *)
enrich_loop_once(done, sel) == FALSE

(* `for ticket in &selected_tickets`: tickets are left once `done` of the   *)
(* tickets `sel` were enriched                                              *)
enrich_loop_continues(done, sel) == Len(done) < Len(sel)

InitRun ==
  /\ args \in RunArgs
  /\ phase = "start"
  /\ tickets = <<>>
  /\ selected = <<>>
  /\ enriched_tickets = <<>>
  /\ written = <<>>
  /\ log = <<>>
  /\ save_i = 0
  /\ pc = "main"
  /\ origin = "run"
  /\ ticket = EmptyTicket
  /\ doc = ""
  /\ rest = <<>>
  /\ dec = NoValue
  /\ result = NoValue
  /\ doc2 = ""
  /\ skip_labels = FALSE
  /\ remote = NoValue
  /\ enriched = NoValue
  /\ calls = <<>>

(* `return` of main with the value r *)
Return(r) ==
  /\ phase' = "exit"
  /\ result' = r
  /\ pc' = "main"

(* the call of enrich_ticket for the ticket t *)
CallEnrich(t) ==
  /\ ticket' = t
  /\ skip_labels' = skip_labels_of(args)
  /\ remote' \in RunRemotes
  /\ enriched' = NoValue
  /\ result' = NoValue
  /\ pc' = "clone"

(* mutant of PlanStep: a plan that could not be generated is skipped and    *)
(* main goes on                                                             *)
PlanStep_Continue(t, p, write_ok) ==
  LET asked == Append(log, MainRequest("generate_implementation_plan", t.id, p))
  IN  IF ~p.ok
      THEN [log |-> asked, written |-> written, result |-> NoValue]
      ELSE IF ~write_ok
      THEN [log |-> asked, written |-> written,
            result |-> Err("Failed to write implementation plan to file")]
      ELSE [log |-> asked,
            written |-> Append(written,
                          File("output", filename(t), plan_file_content(t, p.val))),
            result |-> NoValue]

(* generate_implementation_plan(..).await? answered with p, then the plan   *)
(* written to the output directory: the log, the files and the error this   *)
(* leaves main with (NoValue when main goes on)                             *)
PlanStep(t, p, write_ok) ==
  LET asked == Append(log, MainRequest("generate_implementation_plan", t.id, p))
  IN  IF ~p.ok
      THEN [log |-> asked, written |-> written, result |-> Err(p.err)]
      ELSE IF ~write_ok
      THEN [log |-> asked, written |-> written,
            result |-> Err("Failed to write implementation plan to file")]
      ELSE [log |-> asked,
            written |-> Append(written,
                          File("output", filename(t), plan_file_content(t, p.val))),
            result |-> NoValue]

(* --check-update: check_for_updates, then return *)
CheckForUpdates ==
  /\ phase = "start"
  /\ mode_of(args) = "check_update"
  /\ \E o \in {"no_client", "unreachable", "undecodable", "checked"} :
       /\ log' = (IF o = "no_client" THEN log
                  ELSE Append(log, MainRequest("github_latest_release", "",
                                IF o = "unreachable"
                                THEN Err("error sending request")
                                ELSE Ok(Unit))))
       /\ Return(IF o = "no_client" THEN Err("builder error")
                 ELSE IF o = "undecodable" THEN Err("error decoding response body")
                 ELSE Ok(Unit))
  /\ UNCHANGED <<ticket, args, tickets, selected, enriched_tickets, written, save_i,
                 CodecVars, EnrichVars>>

(* --ticket: the file is looked for and read, from_markdown is called *)
LoadTicketFile ==
  /\ phase = "start"
  /\ mode_of(args) = "ticket_file"
  /\ \E f \in FileStates :
       IF ~f.exists
       THEN Return(Ok(Unit)) /\ UNCHANGED doc
       ELSE IF ~f.readable
       THEN Return(Err("Failed to read ticket file: saved.md")) /\ UNCHANGED doc
       ELSE /\ doc' = f.content
            /\ pc' = "saved"
            /\ phase' = "ticket_file"
            /\ UNCHANGED result
  /\ UNCHANGED <<ticket, origin, rest, dec, doc2, args, tickets, selected,
                 enriched_tickets, written, log, save_i, EnrichVars>>

(* --ticket: from_markdown returned; without --plan main returns, with it   *)
(* the environment and the configuration are loaded                         *)
TicketFileLoaded ==
  /\ phase = "ticket_file"
  /\ pc \in {"decoded", "failed"}
  /\ IF ~result.ok
     THEN Return(Err("Failed to parse ticket from markdown file"))
          /\ UNCHANGED ticket
     ELSE /\ ticket' = result.val
          /\ IF ~args.plan
             THEN Return(Ok(Unit))
             ELSE \E env_ok \in BOOLEAN :
                    IF env_ok
                    THEN phase' = "file_test" /\ result' = NoValue /\ pc' = "main"
                    ELSE Return(Err("Failed to load .env file"))
  /\ UNCHANGED <<args, tickets, selected, enriched_tickets, written, log, save_i,
                 CodecVars, EnrichVars>>

(* --ticket --plan: the connection test of the generative API *)
TicketFileTestAnthropic ==
  /\ phase = "file_test"
  /\ \E r \in AnthropicTestOutcomes :
       /\ log' = Append(log, MainRequest("anthropic_test", "", r))
       /\ IF r.ok THEN phase' = "file_plan" /\ UNCHANGED <<result, pc>>
          ELSE Return(Ok(Unit))
  /\ UNCHANGED <<ticket, args, tickets, selected, enriched_tickets, written, save_i,
                 CodecVars, EnrichVars>>

(* --ticket --plan: the output directory, the plan and its file *)
TicketFilePlan ==
  /\ phase = "file_plan"
  /\ \E dir_ok \in BOOLEAN, p \in PlanOutcomes, write_ok \in BOOLEAN :
       IF ~dir_ok
       THEN Return(Err("Failed to create output directory"))
            /\ UNCHANGED <<log, written>>
       ELSE LET s == PlanStep(ticket, p, write_ok)
            IN  /\ log' = s.log
                /\ written' = s.written
                /\ Return(IF s.result = NoValue THEN Ok(Unit) ELSE s.result)
  /\ UNCHANGED <<ticket, args, tickets, selected, enriched_tickets, save_i,
                 CodecVars, EnrichVars>>

(* --ticket-id: the environment, the configuration and the connection test  *)
(* of the tracker                                                           *)
TicketIdStart ==
  /\ phase = "start"
  /\ mode_of(args) = "ticket_id"
  /\ \E env_ok \in BOOLEAN, r \in LinearTestOutcomes :
       IF ~env_ok
       THEN Return(Err("Failed to load .env file")) /\ UNCHANGED log
       ELSE /\ log' = Append(log, MainRequest("linear_test", "", r))
            /\ IF r.ok THEN phase' = "id_fetch" /\ UNCHANGED <<result, pc>>
               ELSE Return(Ok(Unit))
  /\ UNCHANGED <<ticket, args, tickets, selected, enriched_tickets, written, save_i,
                 CodecVars, EnrichVars>>

(* --ticket-id: fetch_ticket_by_id, then the call of enrich_ticket *)
TicketIdFetch ==
  /\ phase = "id_fetch"
  /\ LET id == unwrap(args.ticket_id)
     IN  \E r \in {Err(e) : e \in LookupErrors}
                  \cup {Ok(UserTicketPool[k]) :
                          k \in {j \in DOMAIN UserTicketPool :
                                   UserTicketPool[j].id = id}} :
           /\ log' = Append(log, MainRequest("fetch_ticket_by_id", id, r))
           /\ IF r.ok
              THEN /\ CallEnrich(r.val)
                   /\ phase' = "id_enrich"
                   /\ UNCHANGED calls
              ELSE /\ Return(Err("Failed to fetch ticket with ID: " \o id))
                   /\ UNCHANGED <<ticket, EnrichVars>>
  /\ UNCHANGED <<args, tickets, selected, enriched_tickets, written, save_i,
                 CodecVars>>

(* --ticket-id: enrich_ticket returned; the tickets directory and the       *)
(* ticket document                                                          *)
TicketIdSave ==
  /\ phase = "id_enrich"
  /\ pc = "done"
  /\ IF ~result.ok
     THEN Return(result) /\ UNCHANGED <<enriched_tickets, written>>
     ELSE \E dir_ok \in BOOLEAN, write_ok \in BOOLEAN :
            IF ~dir_ok
            THEN Return(Err("Failed to create tickets directory"))
                 /\ UNCHANGED <<enriched_tickets, written>>
            ELSE IF ~write_ok
            THEN Return(Err("Failed to write ticket information to file"))
                 /\ UNCHANGED <<enriched_tickets, written>>
            ELSE /\ enriched_tickets' = <<result.val>>
                 /\ written' = Append(written,
                                 File("tickets_dir", filename(result.val),
                                      ticket_file_content(result.val)))
                 /\ IF args.plan
                    THEN phase' = "id_test" /\ result' = NoValue /\ pc' = "main"
                    ELSE Return(Ok(Unit))
  /\ UNCHANGED <<ticket, args, tickets, selected, log, save_i, CodecVars, EnrichVars>>

(* --ticket-id --plan: the connection test of the generative API *)
TicketIdTestAnthropic ==
  /\ phase = "id_test"
  /\ \E r \in AnthropicTestOutcomes :
       /\ log' = Append(log, MainRequest("anthropic_test", "", r))
       /\ IF r.ok THEN phase' = "id_plan" /\ UNCHANGED <<result, pc>>
          ELSE Return(Ok(Unit))
  /\ UNCHANGED <<ticket, args, tickets, selected, enriched_tickets, written, save_i,
                 CodecVars, EnrichVars>>

(* --ticket-id --plan: the output directory, the plan and its file *)
TicketIdPlan ==
  /\ phase = "id_plan"
  /\ \E dir_ok \in BOOLEAN, p \in PlanOutcomes, write_ok \in BOOLEAN :
       IF ~dir_ok
       THEN Return(Err("Failed to create implementation plans directory"))
            /\ UNCHANGED <<log, written>>
       ELSE LET s == PlanStep(enriched_tickets[1], p, write_ok)
            IN  /\ log' = s.log
                /\ written' = s.written
                /\ Return(IF s.result = NoValue THEN Ok(Unit) ELSE s.result)
  /\ UNCHANGED <<ticket, args, tickets, selected, enriched_tickets, save_i,
                 CodecVars, EnrichVars>>

(* assignee mode: the environment, the configuration and the connection     *)
(* tests of both services (the setup wizard of --setup is left out: it      *)
(* only produces the configuration)                                         *)
AssigneeStart ==
  /\ phase = "start"
  /\ mode_of(args) = "assignee"
  /\ \E env_ok \in BOOLEAN, linear_test \in LinearTestOutcomes,
          anthropic_test \in AnthropicTestOutcomes :
       IF ~env_ok
       THEN Return(Err("Failed to load .env file")) /\ UNCHANGED log
       ELSE /\ log' = log \o << MainRequest("linear_test", "", linear_test),
                                MainRequest("anthropic_test", "", anthropic_test) >>
            /\ IF linear_test.ok /\ anthropic_test.ok
               THEN phase' = "fetch" /\ UNCHANGED <<result, pc>>
               ELSE Return(Ok(Unit))
  /\ UNCHANGED <<ticket, args, tickets, selected, enriched_tickets, written, save_i,
                 CodecVars, EnrichVars>>

(* assignee mode: fetch_user_tickets *)
AssigneeFetch ==
  /\ phase = "fetch"
  /\ \E r \in {Err(e) : e \in LookupErrors \cup {"User 'Ann' not found"}}
               \cup {Ok(v) : v \in Prefixes(UserTicketPool, MaxTickets)} :
       /\ log' = Append(log, MainRequest("fetch_user_tickets", "Ann", r))
       /\ IF ~r.ok THEN Return(r) /\ UNCHANGED tickets
          ELSE IF r.val = <<>> THEN Return(Ok(Unit)) /\ UNCHANGED tickets
          ELSE tickets' = r.val /\ phase' = "select" /\ UNCHANGED <<result, pc>>
  /\ UNCHANGED <<ticket, args, selected, enriched_tickets, written, save_i,
                 CodecVars, EnrichVars>>

(* assignee mode: get_user_selection, then the first call of enrich_ticket  *)
AssigneeSelect ==
  /\ phase = "select"
  /\ \E r \in {Err("IO error")} \cup {Ok(v) : v \in SubLists(tickets)} :
       IF ~r.ok
       THEN Return(r) /\ UNCHANGED <<selected, ticket, EnrichVars>>
       ELSE IF r.val = <<>>
       THEN Return(Ok(Unit)) /\ UNCHANGED <<selected, ticket, EnrichVars>>
       ELSE /\ selected' = r.val
            /\ CallEnrich(r.val[1])
            /\ phase' = "enrich"
            /\ UNCHANGED calls
  /\ UNCHANGED <<args, tickets, enriched_tickets, written, log, save_i, CodecVars>>

(* assignee mode: enrich_ticket returned; the next selected ticket is       *)
(* enriched, or the directories are created for the loop that saves         *)
AssigneeEnriched ==
  /\ phase = "enrich"
  /\ pc = "done"
  /\ IF ~result.ok
     THEN Return(result) /\ UNCHANGED <<enriched_tickets, save_i, ticket, EnrichVars>>
     ELSE /\ enriched_tickets' = Append(enriched_tickets, result.val)
          /\ IF enrich_loop_continues(enriched_tickets', selected)
             THEN /\ CallEnrich(selected[Len(enriched_tickets) + 2])
                  /\ UNCHANGED <<phase, save_i, calls>>
             ELSE \E dirs_ok \in BOOLEAN :
                    /\ IF dirs_ok
                       THEN phase' = "save" /\ save_i' = 1 /\ result' = NoValue
                            /\ pc' = "main"
                       ELSE Return(Err("Failed to create tickets directory"))
                            /\ UNCHANGED save_i
                    /\ UNCHANGED <<ticket, EnrichVars>>
  /\ UNCHANGED <<args, tickets, selected, written, log, CodecVars>>

(* assignee mode: the ticket document of the i-th enriched ticket *)
AssigneeSave ==
  /\ phase = "save"
  /\ \E write_ok \in BOOLEAN :
       IF ~write_ok
       THEN Return(Err("Failed to write ticket information to file"))
            /\ UNCHANGED <<written, save_i>>
       ELSE /\ written' = Append(written,
                            File("tickets_dir", filename(enriched_tickets[save_i]),
                                 ticket_file_content_assignee(enriched_tickets[save_i])))
            /\ IF args.plan
               THEN phase' = "plan" /\ UNCHANGED <<save_i, result, pc>>
               ELSE IF save_i < Len(enriched_tickets)
               THEN save_i' = save_i + 1 /\ UNCHANGED <<phase, result, pc>>
               ELSE Return(Ok(Unit)) /\ UNCHANGED save_i
  /\ UNCHANGED <<ticket, args, tickets, selected, enriched_tickets, log,
                 CodecVars, EnrichVars>>

(* assignee mode with --plan: the plan of the i-th enriched ticket and its  *)
(* file                                                                     *)
AssigneePlan ==
  /\ phase = "plan"
  /\ \E p \in PlanOutcomes, write_ok \in BOOLEAN :
       LET s == PlanStep(enriched_tickets[save_i], p, write_ok)
       IN  /\ log' = s.log
           /\ written' = s.written
           /\ IF s.result # NoValue THEN Return(s.result) /\ UNCHANGED save_i
              ELSE IF save_i < Len(enriched_tickets)
              THEN phase' = "save" /\ save_i' = save_i + 1 /\ UNCHANGED <<result, pc>>
              ELSE Return(Ok(Unit)) /\ UNCHANGED save_i
  /\ UNCHANGED <<ticket, args, tickets, selected, enriched_tickets,
                 CodecVars, EnrichVars>>

NextRun ==
  \/ CheckForUpdates
  \/ LoadTicketFile
  \/ FromMarkdownStart
  \/ FromMarkdownLine
  \/ FromMarkdownFinish
  \/ TicketFileLoaded
  \/ TicketFileTestAnthropic
  \/ TicketFilePlan
  \/ TicketIdStart
  \/ TicketIdFetch
  \/ EnrichStart
  \/ FetchLabels
  \/ FetchComments
  \/ FetchParent
  \/ FetchChildren
  \/ FetchRelated
  \/ EnrichReturn
  \/ TicketIdSave
  \/ TicketIdTestAnthropic
  \/ TicketIdPlan
  \/ AssigneeStart
  \/ AssigneeFetch
  \/ AssigneeSelect
  \/ AssigneeEnriched
  \/ AssigneeSave
  \/ AssigneePlan

SpecRun == InitRun /\ [][NextRun]_vars

-----------------------------------------------------------------------------
(* Properties of the modes of main, under SpecRun.                          *)

Issued(kind) == \E k \in DOMAIN log : log[k].kind = kind

Succeeded(kind) == \E k \in DOMAIN log : log[k].kind = kind /\ log[k].ok

(* the ticket documents and the plans written so far, in order *)
TicketDocs == SelectSeq(written, LAMBDA f : f.dir = "tickets_dir")

Plans == SelectSeq(written, LAMBDA f : f.dir = "output")

TicketIdMode ==
  ~args.check_update /\ args.ticket = None /\ is_some(args.ticket_id)

AssigneeMode ==
  ~args.check_update /\ args.ticket = None /\ args.ticket_id = None

FetchIssued == Issued("fetch_ticket_by_id") \/ Issued("fetch_user_tickets")

(* C23 as stated: a run without --plan in a mode that uses the tracker      *)
(* does not depend on the generative API: once the connection test of the   *)
(* tracker has succeeded the run ends only after it has asked the tracker   *)
(* for the tickets, whatever the connection test of the generative API      *)
(* answers, and a run that ends well after a ticket was fetched (and        *)
(* selected) has written one ticket document per ticket.                    *)
C23_PlanlessRunIndependent ==
  phase = "exit" /\ ~args.plan /\ (TicketIdMode \/ AssigneeMode) =>
    /\ Succeeded("linear_test") => FetchIssued
    /\ result.ok /\ TicketIdMode /\ Succeeded("fetch_ticket_by_id") =>
         Len(TicketDocs) = 1
    /\ result.ok /\ AssigneeMode /\ selected # <<>> =>
         Len(TicketDocs) = Len(selected)

(* the part of C23 that holds: with --ticket-id and without --plan no       *)
(* request is made to the generative API                                    *)
TicketIdPlanlessIndependent ==
  ~args.plan /\ TicketIdMode =>
    /\ ~Issued("anthropic_test") /\ ~Issued("generate_implementation_plan")
    /\ phase = "exit" /\ Succeeded("linear_test") => FetchIssued

(* the j-th selected ticket has been enriched into the j-th enriched one *)
EnrichedFrom(j) ==
  /\ \A f \in NonRelationalFields : enriched_tickets[j][f] = selected[j][f]
  /\ \E k \in DOMAIN calls :
       calls[k] = Request("comments", selected[j])

(* an enrichment of the assignee mode has just failed *)
EnrichmentFailed ==
  AssigneeMode /\ phase = "enrich" /\ pc = "done" /\ ~result.ok

(* C25: in the assignee mode no file is written while tickets are being     *)
(* enriched, and once a file has been written every selected ticket has     *)
(* been enriched, in selection order; when an enrichment fails, its         *)
(* error is the error of the lookup that failed, the next step of main      *)
(* returns this error with no file written and no further request, and      *)
(* nothing happens after main has returned.                                 *)
C25_EnrichBeforeWrite ==
  /\ [](AssigneeMode =>
          /\ phase = "enrich" => written = <<>>
          /\ written # <<>> =>
               /\ Len(enriched_tickets) = Len(selected)
               /\ \A j \in DOMAIN selected : EnrichedFrom(j)
          /\ EnrichmentFailed =>
               /\ ~remote[calls[Len(calls)].kind].ok
               /\ result = Err(remote[calls[Len(calls)].kind].err))
  /\ [][/\ phase # "exit"
        /\ EnrichmentFailed =>
             /\ phase' = "exit" /\ result' = result
             /\ written' = <<>> /\ log' = log /\ calls' = calls]_vars

(* C25 witness: the second of two selected tickets failed to be enriched    *)
(* and main returned this error with no file written                        *)
C25_Witness ==
  /\ AssigneeMode /\ phase = "exit"
  /\ Len(selected) = 2 /\ Len(enriched_tickets) = 1
  /\ ~result.ok /\ result.err \in LookupErrors
  /\ calls[Len(calls)].id = selected[2].id
  /\ written = <<>>

LabelRequests == {k \in DOMAIN calls : calls[k].kind = "labels"}

(* C26: enrich_ticket is called with skip_labels = not --plan. Without      *)
(* --plan no label lookup is ever issued, every enriched ticket has no      *)
(* labels and every ticket document written holds the line                  *)
(* `**Labels:** None`; with --plan every ticket for which a lookup was      *)
(* issued had its labels looked up, and an enriched ticket carries the      *)
(* labels the tracker answered, which its document lists.                   *)
C26_LabelsOnlyForPlans ==
  /\ phase \in {"enrich", "id_enrich"} => skip_labels = ~args.plan
  /\ ~args.plan =>
       /\ LabelRequests = {}
       /\ \A j \in DOMAIN enriched_tickets : enriched_tickets[j].labels = <<>>
       /\ \A j \in DOMAIN TicketDocs :
            contains(TicketDocs[j].content, "\n**Labels:** None\n")
  /\ args.plan =>
       /\ \A k \in DOMAIN calls :
            \E m \in LabelRequests : calls[m].id = calls[k].id
       /\ \A j \in DOMAIN enriched_tickets :
            enriched_tickets[j].labels = <<"bug", "ui">>
       /\ \A j \in DOMAIN TicketDocs :
            contains(TicketDocs[j].content, "\n**Labels:** bug, ui\n")

(* C26 witness: a run of the assignee mode without --plan that enriched     *)
(* two tickets and wrote their documents                                    *)
C26_Witness ==
  /\ AssigneeMode /\ ~args.plan /\ phase = "exit" /\ result.ok
  /\ Len(enriched_tickets) = 2 /\ Len(TicketDocs) = 2
  /\ Len(calls) = 8 /\ LabelRequests = {}
  /\ contains(TicketDocs[2].content, "\n**Labels:** None\n")

(* the requests for a plan issued so far, in order *)
PlanRequests ==
  SelectSeq(log, LAMBDA q : q.kind = "generate_implementation_plan")

(* C27: in the assignee mode with --plan the tickets are processed in       *)
(* selection order, the document of a ticket is written before its plan is  *)
(* requested and its plan is written before the document of the next        *)
(* ticket; when the generation of the plan of ticket n fails, main has      *)
(* returned the error of that request, the documents of tickets 1..n and    *)
(* the plans of tickets 1..n-1 are written, and nothing was requested or    *)
(* written for a later ticket.                                              *)
C27_PlanFailureStopsRun ==
  AssigneeMode /\ args.plan =>
    /\ Len(PlanRequests) <= Len(TicketDocs)
    /\ Len(TicketDocs) <= Len(Plans) + 1
    /\ Len(Plans) <= Len(PlanRequests)
    /\ \A k \in DOMAIN written :
         written[k].dir = (IF k % 2 = 1 THEN "tickets_dir" ELSE "output")
    /\ \A j \in DOMAIN TicketDocs :
         /\ TicketDocs[j].name = filename(selected[j])
         /\ TicketDocs[j].content =
              ticket_file_content_assignee(enriched_tickets[j])
    /\ \A j \in DOMAIN PlanRequests : PlanRequests[j].id = selected[j].id
    /\ \A j \in DOMAIN Plans : Plans[j].name = filename(selected[j])
    /\ \A n \in DOMAIN PlanRequests :
         ~PlanRequests[n].ok =>
           /\ phase = "exit"
           /\ result = Err(PlanRequests[n].err)
           /\ n = Len(PlanRequests)
           /\ Len(TicketDocs) = n
           /\ Len(Plans) = n - 1

(* C27 witness: two tickets selected with --plan, the plan of the first     *)
(* was written and the plan of the second failed: two documents and one     *)
(* plan are written                                                         *)
C27_Witness ==
  /\ AssigneeMode /\ args.plan /\ phase = "exit"
  /\ Len(selected) = 2 /\ Len(PlanRequests) = 2
  /\ PlanRequests[1].ok /\ ~PlanRequests[2].ok
  /\ result = Err("Anthropic API returned empty response")
  /\ Len(TicketDocs) = 2 /\ Len(Plans) = 1

TrackerKinds == {"linear_test", "fetch_ticket_by_id", "fetch_user_tickets"}

====
